---- MODULE Spec2Model ----
(***************************************************************************)
(* Model of the meme-coin aggregator: the merge engine of                  *)
(* services/aggregator.ts, the cache-aside store of services/cache.ts and  *)
(* the callers of aggregateTokens (HTTP routes, the WebSocket service and  *)
(* the scheduler).                                                         *)
(*                                                                         *)
(* The specifications of the module:                                       *)
(*   SpecMerge  one pass of mergeTokens / limitTokens over an input batch  *)
(*   SpecAgg    one run of the fetch function of aggregateTokens           *)
(*   Spec       the service with ENABLE_REDIS=false: HTTP requests, the    *)
(*              WebSocket registry and its ticks, the scheduled job        *)
(*   SpecCache  concurrent getOrSet callers over Redis and its fallback    *)
(*   SpecRetry  one call of retryWithBackoff (utils/retry.ts)              *)
(*   SpecStore  get / set / del / getOrSet of CacheService, one client     *)
(***************************************************************************)
EXTENDS Integers, Sequences, FiniteSets, TLC

VARIABLES
    \* ---- SpecMerge: TokenAggregator.mergeTokens / limitTokens
    input,        \* the tokens array consumed so far by the for-of loop
    tokenMap,     \* the Map<string, Token> of mergeTokens, in insertion order
    lastMerge,    \* operands and result of the last mergeTokenData call
    limited,      \* the value returned by limitTokens
    mpc,          \* "loop" while mergeTokens iterates, "done" after limitTokens
    \* ---- SpecAgg: the fetch function passed to getOrSet by aggregateTokens
    enableJupiter,\* TokenAggregator.enableJupiter
    settled,      \* the Promise.allSettled slots, one per source
    aggOut,       \* the outcome of the fetch function
    \* ---- Spec: the running service
    now,              \* Date.now(), in seconds
    inMemoryCache,    \* CacheService.inMemoryCache, entry of 'tokens:aggregated'
    redisEnabled,     \* CacheService.redisEnabled
    redisAvailable,   \* CacheService.redisAvailable
    redisStore,       \* the Redis server's entry of 'tokens:aggregated'
    calls,            \* the aggregateTokens calls in flight, oldest first
    connectedClients, \* WebSocketService.connectedClients, in insertion order
    lastPush,         \* per socket, the 'tokens:update' the last tick sent it
    fetchStarts,      \* the instants of the last two starts of the fetch function
    lastTick,         \* instant of the last run of the setInterval callback
    lastJob,          \* instant of the last run of the cron job
    emitted,          \* the 'tokens:update' events the last step emitted
                      \* outside the tick, in order
    \* ---- SpecRetry: one call of retryWithBackoff(fn, config)
    retryConfig,  \* maxRetries, baseDelay, maxDelay, retryableStatusCodes
    attempt,      \* the loop variable
    rpc,          \* "call" while fn() is pending, "sleep", "returned", "thrown"
    invocations,  \* how many times fn was invoked
    fnLog,        \* the outcome of every settled invocation of fn, in order
    delays,       \* the delays handed to sleep, in order
    lastError,    \* the local lastError
    retryResult,  \* the value returned or the error thrown
    \* ---- SpecStore: one client of CacheService, one operation after the other
    op,           \* the operation in progress: its kind, position and locals
    lastWrite,    \* the last set or del of the key that completed
    lastDone,     \* the last operation that completed, with its result
    \* ---- SpecView: filterTokens, sortTokens, paginateTokens and their callers
    records,      \* the Token[] the aggregator resolved with
    view,         \* the last call: the function, its options and its result
    \* ---- SpecWs: the WebSocketService, its sockets and its timer
    io,           \* the socket.io server: open or closed, and its socket table
    activeTimers, \* the setInterval timers of the runtime not yet cleared
    updateTimer   \* WebSocketService.updateInterval: null, or a timer

mergeVars == <<input, tokenMap, lastMerge, limited, mpc>>
aggVars == <<enableJupiter, settled, aggOut>>
cacheVars == <<inMemoryCache, redisEnabled, redisAvailable, redisStore>>
sysVars == <<now, cacheVars, calls, connectedClients, lastPush, fetchStarts,
            lastTick, lastJob, emitted>>
retryVars == <<retryConfig, attempt, rpc, invocations, fnLog, delays, lastError,
              retryResult>>
storeVars == <<op, lastWrite, lastDone>>
viewVars == <<records, view>>
wsVars == <<io, activeTimers, updateTimer>>
vars == <<mergeVars, aggVars, sysVars, retryVars, storeVars, viewVars, wsVars>>

(***************************************************************************)
(* Bounds of the model.                                                    *)
(***************************************************************************)
MaxTokens == 3
MaxBatch == 2
MaxCalls == 2
MaxTicks == 3
MaxMaxRetries == 3

(***************************************************************************)
(* JavaScript values.  An optional field that is undefined is the empty    *)
(* tuple, a present one is a one-element tuple.  Strings that the code     *)
(* lower-cases are tuples of characters.                                   *)
(***************************************************************************)
Undefined == <<>>

Some(v) == <<v>>

Max(a, b) == IF a >= b THEN a ELSE b

LowerChar(c) ==
    CASE c = "A" -> "a"
      [] c = "B" -> "b"
      [] c = "C" -> "c"
      [] c = "D" -> "d"
      [] c = "E" -> "e"
      [] c = "F" -> "f"
      [] c = "J" -> "j"
      [] c = "M" -> "m"
      [] c = "O" -> "o"
      [] c = "R" -> "r"
      [] OTHER -> c

toLowerCase(s) == [i \in DOMAIN s |-> LowerChar(s[i])]

(***************************************************************************)
(* The Token interface (types/token.ts) and the tokens the providers       *)
(* return in this model.                                                   *)
(***************************************************************************)
Addresses == { <<"0", "x", "a", "b">>, <<"0", "x", "A", "B">>,
               <<"0", "x", "c", "d">>, <<"0", "x", "1", "2">> }

Kinds == 1..6

TokenOf(addr, k) ==
    CASE k = 1 ->
        [token_address |-> addr, token_name |-> "Alpha", token_ticker |-> "ALP",
         price_sol |-> 1, market_cap_sol |-> 0, volume_sol |-> 500,
         liquidity_sol |-> 0, transaction_count |-> 0,
         price_1hr_change |-> Undefined, price_24hr_change |-> Undefined,
         price_7d_change |-> Undefined, protocol |-> <<"R", "a", "y">>,
         source |-> "a", last_updated |-> Some(1)]
      [] k = 2 ->
        [token_address |-> addr, token_name |-> "Beta", token_ticker |-> "BET",
         price_sol |-> 2, market_cap_sol |-> 7, volume_sol |-> 300,
         liquidity_sol |-> 200, transaction_count |-> 4,
         price_1hr_change |-> Some(0), price_24hr_change |-> Undefined,
         price_7d_change |-> Undefined, protocol |-> <<"o", "r", "c", "a">>,
         source |-> "b", last_updated |-> Some(2)]
      [] k = 3 ->
        [token_address |-> addr, token_name |-> "Jup", token_ticker |-> "JUP",
         price_sol |-> 3, market_cap_sol |-> 0, volume_sol |-> 0,
         liquidity_sol |-> 0, transaction_count |-> 0,
         price_1hr_change |-> Undefined, price_24hr_change |-> Undefined,
         price_7d_change |-> Undefined, protocol |-> <<"J", "u", "p">>,
         source |-> "jupiter", last_updated |-> Some(1)]
      [] k = 4 ->
        [token_address |-> addr, token_name |-> "Gamma", token_ticker |-> "GAM",
         price_sol |-> 4, market_cap_sol |-> 0, volume_sol |-> 100,
         liquidity_sol |-> 200, transaction_count |-> 9,
         price_1hr_change |-> Some(1), price_24hr_change |-> Some(2),
         price_7d_change |-> Undefined, protocol |-> <<"M", "e", "t">>,
         source |-> "c", last_updated |-> Some(1)]
      [] k = 5 ->
        [token_address |-> addr, token_name |-> "Delta", token_ticker |-> "DEL",
         price_sol |-> 5, market_cap_sol |-> 7, volume_sol |-> 500,
         liquidity_sol |-> 300, transaction_count |-> 0,
         price_1hr_change |-> Undefined, price_24hr_change |-> Some(5),
         price_7d_change |-> Undefined, protocol |-> <<"R", "a", "y">>,
         source |-> "d", last_updated |-> Undefined]
      [] OTHER ->
        [token_address |-> addr, token_name |-> "Alpha", token_ticker |-> "ALP",
         price_sol |-> 6, market_cap_sol |-> 3, volume_sol |-> 100,
         liquidity_sol |-> 50, transaction_count |-> 2,
         price_1hr_change |-> Some(3), price_24hr_change |-> Some(4),
         price_7d_change |-> Undefined, protocol |-> <<"R", "a", "y">>,
         source |-> "a", last_updated |-> Some(3)]

Tokens == { TokenOf(a, k) : a \in Addresses, k \in Kinds }

(***************************************************************************)
(* A JavaScript Map in insertion order: a sequence of [key, value]         *)
(* entries; set() on a present key keeps the entry's position.             *)
(***************************************************************************)
MapHas(map, key) == \E i \in DOMAIN map : map[i].key = key

MapGet(map, key) == map[CHOOSE i \in DOMAIN map : map[i].key = key].value

MapSet(map, key, value) ==
    IF MapHas(map, key)
    THEN [i \in DOMAIN map |->
            IF map[i].key = key THEN [key |-> key, value |-> value] ELSE map[i]]
    ELSE Append(map, [key |-> key, value |-> value])

\* mutant: delete() leaves the entry in place
MapDelete_Kept(map, key) == map

MapDelete(map, key) == SelectSeq(map, LAMBDA e : e.key # key)

MapValues(map) == [i \in DOMAIN map |-> map[i].value]

\* mutant: ascending order
volumeDescending_Ascending(a, b) == a.volume_sol - b.volume_sol

\* (b.volume_sol || 0) - (a.volume_sol || 0)
volumeDescending(a, b) == b.volume_sol - a.volume_sol

\* Array.prototype.slice(start, end): a negative index counts from the end
sliceIndex(len, k) ==
    IF k < 0 THEN (IF len + k < 0 THEN 0 ELSE len + k)
    ELSE (IF k > len THEN len ELSE k)

slice(seq, start, end) ==
    SubSeq(seq, sliceIndex(Len(seq), start) + 1, sliceIndex(Len(seq), end))

\* String.prototype.includes on tuples of characters
includes(hay, needle) ==
    \E i \in 0..(Len(hay) - Len(needle)) :
        SubSeq(hay, i + 1, i + Len(needle)) = needle

\* parseInt(str, 10): optional blanks, an optional sign, then the longest
\* prefix of digits; NaN when there is no digit
NaN == <<>>

DigitValue(c) ==
    CASE c = "0" -> 0 [] c = "1" -> 1 [] c = "2" -> 2 [] c = "3" -> 3
      [] c = "4" -> 4 [] c = "5" -> 5 [] c = "6" -> 6 [] c = "7" -> 7
      [] c = "8" -> 8 [] c = "9" -> 9 [] OTHER -> -1

parseInt(str) ==
    LET blanks == { i \in 0..Len(str) : \A j \in 1..i : str[j] = " " }
        b == CHOOSE i \in blanks : \A j \in blanks : j <= i
        signed == b < Len(str) /\ str[b + 1] \in {"-", "+"}
        first == IF signed THEN b + 2 ELSE b + 1
        runs == { n \in 0..(Len(str) - first + 1) :
                    \A j \in first..(first + n - 1) : DigitValue(str[j]) >= 0 }
        n == CHOOSE i \in runs : \A j \in runs : j <= i
        val[i \in 0..n] ==
            IF i = 0 THEN 0 ELSE 10 * val[i - 1] + DigitValue(str[first + i - 1])
    IN  IF n = 0 THEN NaN
        ELSE IF signed /\ str[b + 1] = "-" THEN <<0 - val[n]>> ELSE <<val[n]>>

\* Number.prototype.toString of an integer
DigitChar(d) ==
    CASE d = 0 -> "0" [] d = 1 -> "1" [] d = 2 -> "2" [] d = 3 -> "3"
      [] d = 4 -> "4" [] d = 5 -> "5" [] d = 6 -> "6" [] d = 7 -> "7"
      [] d = 8 -> "8" [] OTHER -> "9"

RECURSIVE NatToString(_)
NatToString(n) ==
    IF n < 10 THEN <<DigitChar(n)>>
    ELSE NatToString(n \div 10) \o <<DigitChar(n % 10)>>

\* mutant: every number is written "0"
toString_Zero(n) == <<"0">>

toString(n) == IF n < 0 THEN <<"-">> \o NatToString(0 - n) ELSE NatToString(n)

(***************************************************************************)
(* TokenAggregator: the merge engine.                                      *)
(***************************************************************************)
MAX_AGGREGATED_TOKENS == 2

\* mutant: the transaction count is left out of the score
calculateDataCompleteness_NoTx(token) ==
      (IF token.volume_sol > 0 THEN 3 ELSE 0)
    + (IF token.liquidity_sol > 0 THEN 2 ELSE 0)
    + (IF token.market_cap_sol > 0 THEN 2 ELSE 0)
    + (IF token.price_1hr_change # Undefined THEN 1 ELSE 0)
    + (IF token.price_24hr_change # Undefined THEN 1 ELSE 0)

calculateDataCompleteness(token) ==
      (IF token.volume_sol > 0 THEN 3 ELSE 0)
    + (IF token.liquidity_sol > 0 THEN 2 ELSE 0)
    + (IF token.market_cap_sol > 0 THEN 2 ELSE 0)
    + (IF token.transaction_count > 0 THEN 1 ELSE 0)
    + (IF token.price_1hr_change # Undefined THEN 1 ELSE 0)
    + (IF token.price_24hr_change # Undefined THEN 1 ELSE 0)

\* a timestamp in a boolean context: undefined and 0 are falsy
Truthy(opt) == opt # Undefined /\ opt[1] # 0

\* line 105-106: the record with the higher score is primary, the existing
\* one (token1) on a tie
primaryOf(token1, token2) ==
    IF calculateDataCompleteness(token1) >= calculateDataCompleteness(token2)
    THEN token1 ELSE token2

secondaryOf(token1, token2) ==
    IF calculateDataCompleteness(token1) >= calculateDataCompleteness(token2)
    THEN token2 ELSE token1

\* mutant: the primary's volume is kept
mergedVolume_PrimaryOnly(primary, secondary) == primary.volume_sol

mergedVolume(primary, secondary) ==
    Max(primary.volume_sol, secondary.volume_sol)

mergedLiquidity(primary, secondary) ==
    Max(primary.liquidity_sol, secondary.liquidity_sol)

\* primary.market_cap_sol || secondary.market_cap_sol
mergedMarketCap(primary, secondary) ==
    IF primary.market_cap_sol # 0 THEN primary.market_cap_sol
    ELSE secondary.market_cap_sol

mergedTransactionCount(primary, secondary) ==
    Max(primary.transaction_count, secondary.transaction_count)

mergedPrice(primary, secondary) ==
    IF Truthy(primary.last_updated) /\ Truthy(secondary.last_updated)
    THEN (IF primary.last_updated[1] > secondary.last_updated[1]
          THEN primary.price_sol ELSE secondary.price_sol)
    ELSE primary.price_sol

mergedSource(primary, secondary) ==
    primary.source \o "," \o secondary.source

mergeTokenData(token1, token2) ==
    LET primary == primaryOf(token1, token2)
        secondary == secondaryOf(token1, token2)
    IN  [primary EXCEPT
            !.source = mergedSource(primary, secondary),
            !.volume_sol = mergedVolume(primary, secondary),
            !.liquidity_sol = mergedLiquidity(primary, secondary),
            !.market_cap_sol = mergedMarketCap(primary, secondary),
            !.transaction_count = mergedTransactionCount(primary, secondary),
            !.price_sol = mergedPrice(primary, secondary)]

\* mutant: the key is the address as given
tokenKey_CaseSensitive(token) == token.token_address

tokenKey(token) == toLowerCase(token.token_address)

\* the body of the for-of loop of mergeTokens
mergeOne(map, token) ==
    LET key == tokenKey(token)
    IN  IF ~MapHas(map, key) THEN MapSet(map, key, token)
        ELSE MapSet(map, key, mergeTokenData(MapGet(map, key), token))

mergeTokens(tokens) ==
    LET f[i \in 0..Len(tokens)] ==
            IF i = 0 THEN <<>> ELSE mergeOne(f[i - 1], tokens[i])
    IN  MapValues(f[Len(tokens)])

(***************************************************************************)
(* TokenAggregator: the view pipeline.  Options objects carry optional     *)
(* fields: FilterOptions [timePeriod, minVolume, minLiquidity, protocol],  *)
(* SortOptions [field, order], PaginationOptions [limit, cursor].          *)
(***************************************************************************)
NumTruthy(opt) == opt # Undefined /\ opt[1] # 0

SeqTruthy(opt) == opt # Undefined /\ opt[1] # <<>>

StrTruthy(opt) == opt # Undefined /\ opt[1] # ""

\* token[name] for the property names `price_..._change`: the Token interface
\* has three of them, any other name reads undefined
tokenProperty(token, name) ==
    CASE name = "price_1hr_change" -> token.price_1hr_change
      [] name = "price_24hr_change" -> token.price_24hr_change
      [] name = "price_7d_change" -> token.price_7d_change
      [] OTHER -> Undefined

\* `price_${options.timePeriod}_change`
changeField(timePeriod) == "price_" \o timePeriod \o "_change"

filterTokens(tokens, options) ==
    LET byPeriod(t) ==
            tokenProperty(t, changeField(options.timePeriod[1])) # Undefined
        byVolume(t) == t.volume_sol >= options.minVolume[1]
        byLiquidity(t) == t.liquidity_sol >= options.minLiquidity[1]
        byProtocol(t) ==
            includes(toLowerCase(t.protocol), toLowerCase(options.protocol[1]))
        f1 == IF StrTruthy(options.timePeriod)
              THEN SelectSeq(tokens, byPeriod) ELSE tokens
        f2 == IF options.minVolume # Undefined
              THEN SelectSeq(f1, byVolume) ELSE f1
        f3 == IF options.minLiquidity # Undefined
              THEN SelectSeq(f2, byLiquidity) ELSE f2
    IN  IF SeqTruthy(options.protocol) THEN SelectSeq(f3, byProtocol) ELSE f3

\* a.price_24hr_change || a.price_1hr_change || 0
priceChangeValue(t) ==
    IF NumTruthy(t.price_24hr_change) THEN t.price_24hr_change[1]
    ELSE IF NumTruthy(t.price_1hr_change) THEN t.price_1hr_change[1]
    ELSE 0

sortFieldKnown(field) ==
    field \in {"volume", "price_change", "market_cap", "liquidity",
               "transaction_count"}

sortValue(field, t) ==
    CASE field = "volume" -> t.volume_sol
      [] field = "price_change" -> priceChangeValue(t)
      [] field = "market_cap" -> t.market_cap_sol
      [] field = "liquidity" -> t.liquidity_sol
      [] OTHER -> t.transaction_count

\* mutant: an unrecognized field sorts by volume
sortComparator_ByVolume(options, a, b) ==
    LET field == IF sortFieldKnown(options.field) THEN options.field
                 ELSE "volume"
    IN  IF options.order = "asc"
        THEN sortValue(field, a) - sortValue(field, b)
        ELSE sortValue(field, b) - sortValue(field, a)

\* the comparator of sortTokens
sortComparator(options, a, b) ==
    IF ~sortFieldKnown(options.field) THEN 0
    ELSE IF options.order = "asc"
         THEN sortValue(options.field, a) - sortValue(options.field, b)
         ELSE sortValue(options.field, b) - sortValue(options.field, a)

\* the comparators handed to Array.prototype.sort
compare(cmp, a, b) ==
    IF cmp.kind = "limitTokens" THEN volumeDescending(a, b)
    ELSE sortComparator(cmp.options, a, b)

(***************************************************************************)
(* Array.prototype.sort with a comparator (stable): an insertion sort that *)
(* puts each element after every element the comparator does not order     *)
(* after it.  A comparator is a value, applied by compare.                 *)
(***************************************************************************)
SortedInsert(sorted, x, cmp) ==
    LET after == { i \in DOMAIN sorted : compare(cmp, sorted[i], x) > 0 }
        p == IF after = {} THEN Len(sorted) + 1
             ELSE CHOOSE i \in after : \A j \in after : i <= j
    IN  SubSeq(sorted, 1, p - 1) \o <<x>> \o SubSeq(sorted, p, Len(sorted))

StableSort(seq, cmp) ==
    LET f[i \in 0..Len(seq)] ==
            IF i = 0 THEN <<>> ELSE SortedInsert(f[i - 1], seq[i], cmp)
    IN  f[Len(seq)]

limitTokens(tokens) ==
    IF Len(tokens) <= MAX_AGGREGATED_TOKENS THEN tokens
    ELSE slice(StableSort(tokens, [kind |-> "limitTokens"]), 0, MAX_AGGREGATED_TOKENS)

sortTokens(tokens, options) ==
    StableSort(tokens, [kind |-> "sortTokens", options |-> options])

\* mutant: a negative offset is kept
clampStart_NegativeKept(parsed) == IF parsed = NaN THEN 0 ELSE parsed[1]

\* if (isNaN(startIndex) || startIndex < 0) startIndex = 0
clampStart(parsed) == IF parsed = NaN \/ parsed[1] < 0 THEN 0 ELSE parsed[1]

paginateTokens(tokens, options) ==
    LET limit == IF NumTruthy(options.limit) THEN options.limit[1] ELSE 20
        startIndex == IF SeqTruthy(options.cursor)
                      THEN clampStart(parseInt(options.cursor[1])) ELSE 0
        endIndex == startIndex + limit
    IN  [tokens |-> slice(tokens, startIndex, endIndex),
         next_cursor |-> IF endIndex < Len(tokens) THEN <<toString(endIndex)>>
                         ELSE Undefined]

(***************************************************************************)
(* CacheService (services/cache.ts): the entry of one key in each tier.    *)
(***************************************************************************)
NoEntry == [present |-> FALSE]

Entry(value, expiresAt) ==
    [present |-> TRUE, value |-> value, expiresAt |-> expiresAt]

\* the result of get(): null, or the cached value
Null == [isNull |-> TRUE]

Val(v) == [isNull |-> FALSE, value |-> v]

\* the socket ids
Clients == {"s1", "s2"}

NoPush == [sent |-> FALSE]

(***************************************************************************)
(* SpecMerge: mergeTokens iterates over a batch, then limitTokens.         *)
(***************************************************************************)
NoMerge == [merged |-> FALSE]

MergeInit ==
    /\ input = <<>>
    /\ tokenMap = <<>>
    /\ lastMerge = NoMerge
    /\ limited = <<>>
    /\ mpc = "loop"
    \* the rest of the system is idle
    /\ enableJupiter = FALSE
    /\ settled = <<>>
    /\ aggOut = [status |-> "idle"]
    /\ now = 0
    /\ inMemoryCache = NoEntry
    /\ redisEnabled = FALSE
    /\ redisAvailable = FALSE
    /\ redisStore = NoEntry
    /\ calls = <<>>
    /\ connectedClients = <<>>
    /\ lastPush = [s \in Clients |-> NoPush]
    /\ fetchStarts = <<>>
    /\ lastTick = 0
    /\ lastJob = -1
    /\ emitted = <<>>
    /\ io = [open |-> TRUE, sockets |-> [s \in {"s1", "s2"} |-> "none"]]
    /\ activeTimers = {}
    /\ updateTimer = [isNull |-> TRUE]
    /\ retryConfig = [maxRetries |-> 0]
    /\ attempt = 0
    /\ rpc = "idle"
    /\ invocations = 0
    /\ fnLog = <<>>
    /\ delays = <<>>
    /\ lastError = <<>>
    /\ retryResult = <<>>
    /\ op = [kind |-> "idle"]
    /\ lastWrite = [kind |-> "none"]
    /\ lastDone = [kind |-> "none"]
    /\ records = <<>>
    /\ view = [fn |-> "none"]

MergeStep(token) ==
    /\ mpc = "loop"
    /\ Len(input) < MaxTokens
    /\ input' = Append(input, token)
    /\ tokenMap' = mergeOne(tokenMap, token)
    /\ lastMerge' =
         IF MapHas(tokenMap, tokenKey(token))
         THEN [merged |-> TRUE,
               existing |-> MapGet(tokenMap, tokenKey(token)),
               incoming |-> token,
               result |-> MapGet(tokenMap', tokenKey(token))]
         ELSE NoMerge
    /\ UNCHANGED <<limited, mpc>>

MergeFinish ==
    /\ mpc = "loop"
    /\ limited' = limitTokens(MapValues(tokenMap))
    /\ mpc' = "done"
    /\ UNCHANGED <<input, tokenMap, lastMerge>>

MergeNext ==
    \/ \E token \in Tokens : MergeStep(token) /\ UNCHANGED <<aggVars, sysVars, retryVars, storeVars, viewVars, wsVars>>
    \/ MergeFinish /\ UNCHANGED <<aggVars, sysVars, retryVars, storeVars, viewVars, wsVars>>

SpecMerge == MergeInit /\ [][MergeNext]_vars

(***************************************************************************)
(* Claims about the merge engine, checked under SpecMerge.                 *)
(***************************************************************************)
Range(seq) == { seq[i] : i \in DOMAIN seq }

InputKeys == { toLowerCase(input[i].token_address) : i \in DOMAIN input }

\* the completeness score as the specification words it
SpecScore(t) ==
      (IF t.volume_sol > 0 THEN 3 ELSE 0)
    + (IF t.liquidity_sol > 0 THEN 2 ELSE 0)
    + (IF t.market_cap_sol > 0 THEN 2 ELSE 0)
    + (IF t.transaction_count > 0 THEN 1 ELSE 0)
    + (IF Len(t.price_1hr_change) = 1 THEN 1 ELSE 0)
    + (IF Len(t.price_24hr_change) = 1 THEN 1 ELSE 0)

\* primary and secondary of the last conflict as the specification words them:
\* the incoming record only when its score is strictly higher
SpecPrimary ==
    IF SpecScore(lastMerge.incoming) > SpecScore(lastMerge.existing)
    THEN lastMerge.incoming ELSE lastMerge.existing

SpecSecondary ==
    IF SpecScore(lastMerge.incoming) > SpecScore(lastMerge.existing)
    THEN lastMerge.existing ELSE lastMerge.incoming

\* C6: mergeTokens returns exactly one record per distinct lower-cased
\* token_address of its input: as many records as distinct keys, and no two
\* records with addresses equal ignoring case.
C6_OneRecordPerKey ==
    LET merged == mergeTokens(input)
    IN  /\ Len(merged) = Cardinality(InputKeys)
        /\ MapValues(tokenMap) = merged
        /\ \A i, j \in DOMAIN merged :
              i # j => toLowerCase(merged[i].token_address)
                         # toLowerCase(merged[j].token_address)

\* C6 witness: the input held two spellings of one address and another address
C6_Witness ==
    /\ Len(input) = 3
    /\ Cardinality({ input[i].token_address : i \in DOMAIN input }) = 3
    /\ Cardinality(InputKeys) = 2
    /\ Len(tokenMap) = 2

\* C7: above the cap the aggregate has exactly MAX_AGGREGATED_TOKENS records,
\* all of them merged records, and every retained volume >= every discarded
\* volume; at or below the cap the merged records are returned unchanged, in
\* merge order.
C7_CapKeepsHighestVolume ==
    mpc = "done" =>
        LET merged == MapValues(tokenMap)
            discarded == Range(merged) \ Range(limited)
        IN  IF Len(merged) > MAX_AGGREGATED_TOKENS
            THEN /\ Len(limited) = MAX_AGGREGATED_TOKENS
                 /\ Cardinality(Range(limited)) = MAX_AGGREGATED_TOKENS
                 /\ Range(limited) \subseteq Range(merged)
                 /\ \A r \in Range(limited) : \A d \in discarded :
                        r.volume_sol >= d.volume_sol
            ELSE limited = merged

\* C7 witness: the cap was exceeded and a record merged early was discarded
\* for a record of higher volume merged later
C7_Witness ==
    /\ mpc = "done"
    /\ Len(tokenMap) > MAX_AGGREGATED_TOKENS
    /\ tokenMap[1].value \notin Range(limited)
    /\ \E r \in Range(limited) : r.volume_sol > tokenMap[1].value.volume_sol

\* C8: on a key conflict the record with the strictly higher completeness
\* score is primary, the existing record on a tie; the merged record carries
\* the primary's address, name and protocol.
C8_PrimaryByScore ==
    lastMerge.merged =>
        /\ lastMerge.result.token_address = SpecPrimary.token_address
        /\ lastMerge.result.token_name = SpecPrimary.token_name
        /\ lastMerge.result.protocol = SpecPrimary.protocol

\* C8 witness: a conflict between records of equal score and different names
C8_Witness ==
    /\ lastMerge.merged
    /\ SpecScore(lastMerge.incoming) = SpecScore(lastMerge.existing)
    /\ lastMerge.incoming.token_name # lastMerge.existing.token_name
    /\ lastMerge.incoming.token_address # lastMerge.existing.token_address

\* C9 (as claimed): the merged price is the price of the record with the more
\* recent last_updated, and the primary's price when the two timestamps are
\* equal or either is absent.
C9_PriceOfFresherPrimaryOnTie ==
    lastMerge.merged =>
        lastMerge.result.price_sol =
            IF /\ Len(SpecPrimary.last_updated) = 1
               /\ Len(SpecSecondary.last_updated) = 1
               /\ SpecSecondary.last_updated[1] > SpecPrimary.last_updated[1]
            THEN SpecSecondary.price_sol
            ELSE SpecPrimary.price_sol

ContributingSources(key) ==
    { input[i].source : i \in { j \in DOMAIN input : tokenKey(input[j]) = key } }

\* the comma-joined enumerations of a non-empty set of sources, each source once
RECURSIVE JoinsOf(_)
JoinsOf(S) ==
    IF Cardinality(S) <= 1 THEN S
    ELSE UNION { { x \o "," \o rest : rest \in JoinsOf(S \ {x}) } : x \in S }

\* C11: the provenance of a merged record is the comma-joined set of the
\* sources that contributed to it, each contributing source appearing once
\* (in whatever order).
C11_ProvenanceIsSetOfSources ==
    \A i \in DOMAIN tokenMap :
        tokenMap[i].value.source \in JoinsOf(ContributingSources(tokenMap[i].key))

\* the fields the claim holds to be independent of the order of arrival
OrderFreeFields(t) ==
    [volume_sol |-> t.volume_sol, liquidity_sol |-> t.liquidity_sol,
     transaction_count |-> t.transaction_count,
     market_cap_sol |-> t.market_cap_sol, price_sol |-> t.price_sol]

\* C12: for two records A and B of one key, mergeTokens([A, B]) and
\* mergeTokens([B, A]) give the same volume, liquidity, transaction count,
\* market cap and price.
C12_OrderIndependent ==
    (Len(input) = 2 /\ Len(tokenMap) = 1)
    => LET swapped == mergeTokens(<<input[2], input[1]>>)
       IN  /\ Len(swapped) = 1
           /\ OrderFreeFields(swapped[1]) = OrderFreeFields(tokenMap[1].value)

(***************************************************************************)
(* SpecAgg: the fetch function aggregateTokens hands to getOrSet.  Every   *)
(* enabled source is fetched, Promise.allSettled joins them, the fulfilled *)
(* batches are flattened in source order, merged and limited.              *)
(***************************************************************************)
SeqsUpTo(S, n) == UNION { [1..m -> S] : m \in 0..n }

Batches(kind) == SeqsUpTo({ TokenOf(a, kind) : a \in Addresses }, MaxBatch)

\* what src.fetch() of source i may resolve to: DexScreener returns records
\* with metrics, Jupiter records with a price only
BatchesOf(i) == IF i = 1 THEN Batches(2) ELSE Batches(3)

\* sources: DexScreener always, Jupiter when enabled
sourceNames(jupiterOn) ==
    IF jupiterOn THEN <<"DexScreener", "Jupiter">> ELSE <<"DexScreener">>

\* results.flatMap(...): a fulfilled slot contributes its value, a rejected
\* slot the empty array
flatMapSettled(results) ==
    LET f[i \in 0..Len(results)] ==
            IF i = 0 THEN <<>>
            ELSE f[i - 1] \o (IF results[i].status = "fulfilled"
                              THEN results[i].value ELSE <<>>)
    IN  f[Len(results)]

\* mutant: Promise.all in place of Promise.allSettled, a rejection aborts
fetchAndMerge_FailFast(results) ==
    IF \E i \in DOMAIN results : results[i].status = "rejected"
    THEN [status |-> "rejected"]
    ELSE [status |-> "fulfilled",
          value |-> limitTokens(mergeTokens(flatMapSettled(results)))]

\* the async arrow function of aggregateTokens once allSettled has resolved
fetchAndMerge(results) ==
    LET aggregatedTokens == flatMapSettled(results)
    IN  IF Len(aggregatedTokens) = 0
        THEN [status |-> "fulfilled", value |-> <<>>]
        ELSE [status |-> "fulfilled",
              value |-> limitTokens(mergeTokens(aggregatedTokens))]

AggInit ==
    /\ enableJupiter \in BOOLEAN
    /\ settled = [i \in DOMAIN sourceNames(enableJupiter) |-> [status |-> "pending"]]
    /\ aggOut = [status |-> "running"]
    \* the rest of the system is idle
    /\ input = <<>>
    /\ tokenMap = <<>>
    /\ lastMerge = NoMerge
    /\ limited = <<>>
    /\ mpc = "idle"
    /\ now = 0
    /\ inMemoryCache = NoEntry
    /\ redisEnabled = FALSE
    /\ redisAvailable = FALSE
    /\ redisStore = NoEntry
    /\ calls = <<>>
    /\ connectedClients = <<>>
    /\ lastPush = [s \in Clients |-> NoPush]
    /\ fetchStarts = <<>>
    /\ lastTick = 0
    /\ lastJob = -1
    /\ emitted = <<>>
    /\ io = [open |-> TRUE, sockets |-> [s \in {"s1", "s2"} |-> "none"]]
    /\ activeTimers = {}
    /\ updateTimer = [isNull |-> TRUE]
    /\ retryConfig = [maxRetries |-> 0]
    /\ attempt = 0
    /\ rpc = "idle"
    /\ invocations = 0
    /\ fnLog = <<>>
    /\ delays = <<>>
    /\ lastError = <<>>
    /\ retryResult = <<>>
    /\ op = [kind |-> "idle"]
    /\ lastWrite = [kind |-> "none"]
    /\ lastDone = [kind |-> "none"]
    /\ records = <<>>
    /\ view = [fn |-> "none"]

\* src.fetch() of source i resolves
SourceFulfil(i, batch) ==
    /\ aggOut.status = "running"
    /\ settled[i].status = "pending"
    /\ settled' = [settled EXCEPT ![i] = [status |-> "fulfilled", value |-> batch]]
    /\ UNCHANGED <<enableJupiter, aggOut>>

\* src.fetch() of source i rejects
SourceReject(i) ==
    /\ aggOut.status = "running"
    /\ settled[i].status = "pending"
    /\ settled' = [settled EXCEPT ![i] = [status |-> "rejected"]]
    /\ UNCHANGED <<enableJupiter, aggOut>>

\* Promise.allSettled resolves and the function returns
AggReturn ==
    /\ aggOut.status = "running"
    /\ \A i \in DOMAIN settled : settled[i].status # "pending"
    /\ aggOut' = fetchAndMerge(settled)
    /\ UNCHANGED <<enableJupiter, settled>>

AggNext ==
    \/ \E i \in DOMAIN settled : \E batch \in BatchesOf(i) :
          SourceFulfil(i, batch) /\ UNCHANGED <<mergeVars, sysVars, retryVars, storeVars, viewVars, wsVars>>
    \/ \E i \in DOMAIN settled : SourceReject(i) /\ UNCHANGED <<mergeVars, sysVars, retryVars, storeVars, viewVars, wsVars>>
    \/ AggReturn /\ UNCHANGED <<mergeVars, sysVars, retryVars, storeVars, viewVars, wsVars>>

SpecAgg == AggInit /\ [][AggNext]_vars

(***************************************************************************)
(* Claims about the fetch orchestration, checked under SpecAgg.            *)
(***************************************************************************)
\* the batches of the sources that did not fail, in source order
C5_UsedBatches ==
    LET f[i \in 0..Len(settled)] ==
            IF i = 0 THEN <<>>
            ELSE IF settled[i].status = "rejected" THEN f[i - 1]
            ELSE f[i - 1] \o settled[i].value
    IN  f[Len(settled)]

\* C5: whatever subset of the enabled providers fails, the aggregation call
\* completes successfully; a failing provider contributes an empty batch, the
\* batches of the others are all merged, and when every provider fails the
\* result is the empty list.
C5_SettleAll ==
    /\ aggOut.status # "rejected"
    /\ aggOut.status = "fulfilled" =>
          /\ aggOut.value = limitTokens(mergeTokens(C5_UsedBatches))
          /\ (\A i \in DOMAIN settled : settled[i].status = "rejected")
                => aggOut.value = <<>>
          /\ Len(C5_UsedBatches) <= MAX_AGGREGATED_TOKENS =>
                \A i \in DOMAIN settled :
                   settled[i].status = "fulfilled" =>
                      \A n \in DOMAIN settled[i].value :
                         \E r \in DOMAIN aggOut.value :
                            toLowerCase(aggOut.value[r].token_address)
                              = toLowerCase(settled[i].value[n].token_address)

\* C5 witness: DexScreener failed, Jupiter delivered, the call returned
\* Jupiter's records
C5_Witness ==
    /\ aggOut.status = "fulfilled"
    /\ Len(settled) = 2
    /\ settled[1].status = "rejected"
    /\ settled[2].status = "fulfilled"
    /\ Len(settled[2].value) = 2
    /\ Len(aggOut.value) = 2

(***************************************************************************)
(* Spec: the running service.  aggregateTokens is called by the HTTP       *)
(* routes, by the WebSocket service (subscribe, updatePreferences and the  *)
(* periodic tick) and by the scheduler's cron job; every call goes through *)
(* cacheService.getOrSet on the one key 'tokens:aggregated'.               *)
(***************************************************************************)
\* the time to live aggregateTokens passes to getOrSet, in seconds
AGG_TTL == 30

\* the period of the tick, here with WEBSOCKET_UPDATE_INTERVAL=15
updateInterval == 15

\* the period of the cron job, in seconds
cronSeconds == 30

\* what the fetch function of aggregateTokens may resolve with in this model
SnapshotInputs ==
    { << [status |-> "fulfilled",
          value |-> << TokenOf(<<"0", "x", "a", "b">>, 2),
                       TokenOf(<<"0", "x", "c", "d">>, 2) >>],
         [status |-> "fulfilled",
          value |-> << TokenOf(<<"0", "x", "A", "B">>, 3) >>] >>,
      << [status |-> "fulfilled",
          value |-> << TokenOf(<<"0", "x", "c", "d">>, 1),
                       TokenOf(<<"0", "x", "a", "b">>, 4),
                       TokenOf(<<"0", "x", "1", "2">>, 6) >>],
         [status |-> "rejected"] >> }

Snapshots == { fetchAndMerge(r).value : r \in SnapshotInputs }

\* ClientPreferences: { filter?, sort?, pagination? }
EmptyPreferences ==
    [filter |-> Undefined, sort |-> Undefined, pagination |-> Undefined]

PageLimits == {1, 2}

PreferencesOf(limit) ==
    [filter |-> Some([timePeriod |-> Undefined, minVolume |-> Some(300),
                      minLiquidity |-> Undefined, protocol |-> Undefined]),
     sort |-> Some([field |-> "volume", order |-> "desc"]),
     pagination |-> Some([limit |-> Some(limit), cursor |-> Undefined])]

Preferences == { PreferencesOf(l) : l \in PageLimits }

\* WebSocketService.aggregateAndProcessTokens once aggregateTokens resolved
\* with tokens; preferences is Undefined or Some(ClientPreferences)
filteredFor(tokens, preferences) ==
    IF preferences # Undefined /\ preferences[1].filter # Undefined
    THEN filterTokens(tokens, preferences[1].filter[1]) ELSE tokens

aggregateAndProcessTokens(tokens, preferences) ==
    IF Len(tokens) = 0 THEN <<>>
    ELSE LET filtered == filteredFor(tokens, preferences)
             sorted == IF preferences # Undefined /\ preferences[1].sort # Undefined
                       THEN sortTokens(filtered, preferences[1].sort[1])
                       ELSE filtered
             paginationOptions ==
                 IF preferences # Undefined /\ preferences[1].pagination # Undefined
                 THEN preferences[1].pagination[1]
                 ELSE [limit |-> Some(25), cursor |-> Undefined]
         IN  paginateTokens(sorted, paginationOptions).tokens

\* mutant: the entry is gone at its expiry instant already
getFromMemory_EarlyExpiry(cache, t) ==
    IF ~cache.present THEN Null
    ELSE IF t >= cache.expiresAt THEN Null
    ELSE Val(cache.value)

\* CacheService.getFromMemory: the value, and the map after the lazy delete
getFromMemory(cache, t) ==
    IF ~cache.present THEN Null
    ELSE IF t > cache.expiresAt THEN Null
    ELSE Val(cache.value)

memoryAfterGet(cache, t) ==
    IF cache.present /\ t > cache.expiresAt THEN NoEntry ELSE cache

\* the Redis server's GET: nil once the key's time to live has run out
redisGet(store, t) ==
    IF store.present /\ t < store.expiresAt THEN Val(store.value) ELSE Null

\* mutant: the availability flag is not looked at
redisUsable_FlagIgnored == redisEnabled

\* this.redisEnabled && this.redisAvailable && this.client
redisUsable == redisEnabled /\ redisAvailable

\* the fetch function runs from its start until set() stored its result
fetchPending(call) == call.pc \in {"fetching", "redisSet"}

\* a call of aggregateTokens entering getOrSet
NewCall(origin, client, tick, preferences, pending) ==
    [pc |-> "start", origin |-> origin, client |-> client, tick |-> tick,
     preferences |-> preferences,
     \* issued while the key was missing and a fetch was pending
     duringFetch |-> /\ getFromMemory(inMemoryCache, now) = Null
                     /\ redisGet(redisStore, now) = Null
                     /\ \E c \in DOMAIN pending : fetchPending(pending[c]),
     data |-> Null]

\* the 'tokens:update' payload of sendInitialData / sendFilteredData
Push(call, tokens) ==
    [sent |-> TRUE, tick |-> call.tick, preferences |-> call.preferences,
     tokens |-> aggregateAndProcessTokens(tokens, call.preferences),
     \* the number of records that passed the filter
     total |-> Len(filteredFor(tokens, call.preferences))]

\* getOrSet up to its first suspension: get() asks Redis when usable, else
\* reads the in-memory map; a hit returns and a miss calls fetchFn
Issue(call) ==
    IF redisUsable THEN [call EXCEPT !.pc = "redisGet"]
    ELSE LET cached == getFromMemory(inMemoryCache, now)
         IN  IF ~cached.isNull
             THEN [call EXCEPT !.pc = "done", !.data = cached]
             ELSE [call EXCEPT !.pc = "fetching"]

\* the calls of a sequence still suspended
Suspended(cs) == SelectSeq(cs, LAMBDA c : c.pc # "done")

\* the pushes of the calls of a sequence that returned, applied in order;
\* those of the tick of instant tick are recorded
RECURSIVE Deliver(_, _, _)
Deliver(pushes, cs, tick) ==
    IF cs = <<>> THEN pushes
    ELSE LET c == Head(cs)
         IN  Deliver(IF c.pc = "done" /\ c.tick = Some(tick)
                     THEN [pushes EXCEPT ![c.client] = Push(c, c.data.value)]
                     ELSE pushes,
                     Tail(cs), tick)

\* the instants of the last two starts of the fetch function
RECURSIVE NoteStarts(_, _)
NoteStarts(starts, n) ==
    IF n = 0 THEN starts
    ELSE NoteStarts(IF Len(starts) < 2 THEN Append(starts, now)
                    ELSE <<starts[2], now>>, n - 1)

\* the emits of sendInitialData / sendFilteredData called by the subscribe
\* and updatePreferences handlers, for the calls of a sequence that returned
RECURSIVE OutOfBand(_)
OutOfBand(cs) ==
    IF cs = <<>> THEN <<>>
    ELSE LET c == Head(cs)
         IN  (IF c.pc = "done" /\ c.client # "none" /\ c.tick = Undefined
              THEN <<[client |-> c.client, preferences |-> c.preferences]>>
              ELSE <<>>) \o OutOfBand(Tail(cs))

\* calls, lastPush, emitted and fetchStarts once the calls of before changed
\* to ds
Advance(before, ds, pushes, tick) ==
    /\ calls' = Suspended(ds)
    /\ emitted' = OutOfBand(ds)
    /\ lastPush' = Deliver(pushes, ds, tick)
    /\ fetchStarts' =
         NoteStarts(fetchStarts,
                    Cardinality({ i \in DOMAIN ds :
                                    /\ ds[i].pc = "fetching"
                                    /\ (i > Len(before) \/ before[i].pc # "fetching") }))

\* issuing the calls of newCalls: each runs to its first suspension
RECURSIVE IssueEach(_, _, _)
IssueEach(cs, origin, rest) ==
    IF rest = <<>> THEN cs
    ELSE IssueEach(Append(cs, Issue(NewCall(origin, rest[1].client, rest[1].tick,
                                            rest[1].preferences, cs))),
                   origin, Tail(rest))

IssueAll(origin, requests, pushes, tick) ==
    /\ Len(calls) + Len(requests) <= MaxCalls
    /\ Advance(calls, IssueEach(calls, origin, requests), pushes, tick)
    /\ inMemoryCache' = IF redisUsable \/ requests = <<>> THEN inMemoryCache
                        ELSE memoryAfterGet(inMemoryCache, now)
    /\ UNCHANGED <<redisEnabled, redisAvailable, redisStore>>

Request(client, tick, preferences) ==
    [client |-> client, tick |-> tick, preferences |-> preferences]

Init ==
    /\ now = 0
    /\ inMemoryCache = NoEntry
    /\ redisEnabled = FALSE
    /\ redisAvailable = FALSE
    /\ redisStore = NoEntry
    /\ calls = <<>>
    /\ connectedClients = <<>>
    /\ lastPush = [s \in Clients |-> NoPush]
    /\ fetchStarts = <<>>
    /\ lastTick = 0
    /\ lastJob = -1
    /\ emitted = <<>>
    /\ io = [open |-> TRUE, sockets |-> [s \in {"s1", "s2"} |-> "none"]]
    /\ activeTimers = {}
    /\ updateTimer = [isNull |-> TRUE]
    /\ retryConfig = [maxRetries |-> 0]
    /\ attempt = 0
    /\ rpc = "idle"
    /\ invocations = 0
    /\ fnLog = <<>>
    /\ delays = <<>>
    /\ lastError = <<>>
    /\ retryResult = <<>>
    /\ op = [kind |-> "idle"]
    /\ lastWrite = [kind |-> "none"]
    /\ lastDone = [kind |-> "none"]
    /\ records = <<>>
    /\ view = [fn |-> "none"]
    \* the merge engine and the fetch function are modelled by Snapshots here
    /\ input = <<>>
    /\ tokenMap = <<>>
    /\ lastMerge = NoMerge
    /\ limited = <<>>
    /\ mpc = "idle"
    /\ enableJupiter = TRUE
    /\ settled = <<>>
    /\ aggOut = [status |-> "idle"]

\* router.get('/'): await aggregator.aggregateTokens()
HttpRequest ==
    /\ IssueAll("http", <<Request("none", Undefined, Undefined)>>, lastPush, lastTick)
    /\ UNCHANGED <<now, connectedClients, lastTick, lastJob>>

\* the cron job '*/30 * * * * *'
ScheduledJob ==
    /\ now % cronSeconds = 0
    /\ lastJob # now
    /\ lastJob' = now
    /\ IssueAll("sched", <<Request("none", Undefined, Undefined)>>, lastPush, lastTick)
    /\ UNCHANGED <<now, connectedClients, lastTick>>

\* io.on('connection'): socket ids are fresh
Connect(s) ==
    /\ ~MapHas(connectedClients, s)
    /\ \A c \in DOMAIN calls : calls[c].client # s
    /\ connectedClients' = MapSet(connectedClients, s, EmptyPreferences)
    /\ lastPush' = [lastPush EXCEPT ![s] = NoPush]
    /\ emitted' = <<>>
    /\ UNCHANGED <<now, cacheVars, calls, fetchStarts, lastTick, lastJob>>

\* socket.on('disconnect')
Disconnect(s) ==
    /\ MapHas(connectedClients, s)
    /\ connectedClients' = MapDelete(connectedClients, s)
    /\ lastPush' = [lastPush EXCEPT ![s] = NoPush]
    /\ emitted' = <<>>
    /\ UNCHANGED <<now, cacheVars, calls, fetchStarts, lastTick, lastJob>>

\* socket.on('subscribe'): preferences is Undefined or Some(ClientPreferences)
Subscribe(s, preferences) ==
    /\ MapHas(connectedClients, s)
    /\ connectedClients' =
         IF preferences # Undefined
         THEN MapSet(connectedClients, s, preferences[1])
         ELSE connectedClients
    /\ IssueAll("ws", <<Request(s, Undefined, preferences)>>, lastPush, lastTick)
    /\ UNCHANGED <<now, lastTick, lastJob>>

\* mutant: the handler leaves the push to the next tick
updateRequests_None(s, preferences) == <<>>

\* this.sendFilteredData(socket, preferences) of the updatePreferences handler
updateRequests(s, preferences) == <<Request(s, Undefined, Some(preferences))>>

\* socket.on('updatePreferences')
UpdatePreferences(s, preferences) ==
    /\ MapHas(connectedClients, s)
    /\ connectedClients' = MapSet(connectedClients, s, preferences)
    /\ IssueAll("ws", updateRequests(s, preferences), lastPush, lastTick)
    /\ UNCHANGED <<now, lastTick, lastJob>>

\* the setInterval callback of startPeriodicUpdates: nothing when the registry
\* is empty, else sendFilteredData for every entry, in the Map's order
Tick ==
    /\ now > 0
    /\ now % updateInterval = 0
    /\ lastTick # now
    /\ lastTick' = now
    /\ IssueAll("ws", [i \in DOMAIN connectedClients |->
                         Request(connectedClients[i].key, Some(now),
                                 Some(connectedClients[i].value))],
                [s \in Clients |-> NoPush], now)
    /\ UNCHANGED <<now, connectedClients, lastJob>>

\* fetchFn() resolves with data; set() writes the in-memory map and, when
\* usable, sends SETEX to Redis
FetchReturn(c, data) ==
    /\ calls[c].pc = "fetching"
    /\ inMemoryCache' = Entry(data, now + AGG_TTL)
    /\ Advance(calls, [calls EXCEPT ![c] =
                  [calls[c] EXCEPT !.pc = IF redisUsable THEN "redisSet" ELSE "done",
                                   !.data = Val(data)]],
               lastPush, lastTick)
    /\ UNCHANGED <<now, redisEnabled, redisAvailable, redisStore,
                   connectedClients, lastTick, lastJob>>

\* time passes, once the timers due at this instant have fired
AdvanceClock ==
    /\ now + updateInterval <= MaxTicks * updateInterval
    /\ (now > 0 /\ now % updateInterval = 0) => lastTick = now
    /\ now % cronSeconds = 0 => lastJob = now
    /\ now' = now + updateInterval
    /\ emitted' = <<>>
    /\ UNCHANGED <<cacheVars, calls, connectedClients, lastPush, fetchStarts,
                   lastTick, lastJob>>

Next ==
    \/ HttpRequest /\ UNCHANGED <<mergeVars, aggVars, retryVars, storeVars, viewVars, wsVars>>
    \/ ScheduledJob /\ UNCHANGED <<mergeVars, aggVars, retryVars, storeVars, viewVars, wsVars>>
    \/ \E s \in Clients : Connect(s) /\ UNCHANGED <<mergeVars, aggVars, retryVars, storeVars, viewVars, wsVars>>
    \/ \E s \in Clients : Disconnect(s) /\ UNCHANGED <<mergeVars, aggVars, retryVars, storeVars, viewVars, wsVars>>
    \/ \E s \in Clients : \E p \in {Undefined} \cup { Some(q) : q \in Preferences } :
          Subscribe(s, p) /\ UNCHANGED <<mergeVars, aggVars, retryVars, storeVars, viewVars, wsVars>>
    \/ \E s \in Clients : \E p \in Preferences :
          UpdatePreferences(s, p) /\ UNCHANGED <<mergeVars, aggVars, retryVars, storeVars, viewVars, wsVars>>
    \/ Tick /\ UNCHANGED <<mergeVars, aggVars, retryVars, storeVars, viewVars, wsVars>>
    \/ \E c \in DOMAIN calls : \E data \in Snapshots :
          FetchReturn(c, data) /\ UNCHANGED <<mergeVars, aggVars, retryVars, storeVars, viewVars, wsVars>>
    \/ AdvanceClock /\ UNCHANGED <<mergeVars, aggVars, retryVars, storeVars, viewVars, wsVars>>

Spec == Init /\ [][Next]_vars

(***************************************************************************)
(* Claims about the ticks and the callers of aggregateTokens, under Spec.  *)
(***************************************************************************)
\* the calls in flight that the tick of instant t issued
TickCalls(t) == { c \in DOMAIN calls : calls[c].tick = Some(t) }

TickInstants == { k * updateInterval : k \in 1..MaxTicks }

\* C2: on a tick the snapshot is obtained once for all the live subscribers:
\* the calls that one tick issued never have more than one fetch of the
\* providers pending among them.
C2_OneFetchPerTick ==
    \A t \in TickInstants :
        Cardinality({ c \in TickCalls(t) : fetchPending(calls[c]) }) <= 1

\* the limit a push was paginated with
limitOf(push) ==
    IF push.preferences[1].pagination = Undefined THEN 25
    ELSE push.preferences[1].pagination[1].limit[1]

IsPrefix(short, long) ==
    /\ Len(short) <= Len(long)
    /\ SubSeq(long, 1, Len(short)) = short

\* C3: two subscribers served by the same tick with the same filter and sort
\* and different limits are shown the same filtered total, and the page of the
\* smaller limit is a prefix of the page of the larger limit.
C3_SameSnapshotPerTick ==
    \A s, t \in Clients :
        ( /\ lastPush[s].sent
          /\ lastPush[t].sent
          /\ lastPush[s].tick = lastPush[t].tick
          /\ lastPush[s].preferences[1].filter = lastPush[t].preferences[1].filter
          /\ lastPush[s].preferences[1].sort = lastPush[t].preferences[1].sort
          /\ limitOf(lastPush[s]) < limitOf(lastPush[t]) )
        => /\ lastPush[s].total = lastPush[t].total
           /\ IsPrefix(lastPush[s].tokens, lastPush[t].tokens)

\* C4: whatever the callers and their interleaving, two consecutive starts of
\* the fetch function for the key are at least one time to live apart.
C4_OncePerTtlWindow ==
    Len(fetchStarts) = 2 => fetchStarts[2] - fetchStarts[1] >= AGG_TTL


(***************************************************************************)
(* SpecCache: getOrSet callers (HTTP requests and the scheduled job) over  *)
(* a CacheService with ENABLE_REDIS unset, so Redis is used while its      *)
(* connection is up and the in-memory map is the fallback.                 *)
(***************************************************************************)
CacheInit ==
    /\ now = 0
    /\ inMemoryCache = NoEntry
    /\ redisEnabled = TRUE
    /\ redisAvailable = FALSE
    /\ redisStore = NoEntry
    /\ calls = <<>>
    /\ connectedClients = <<>>
    /\ lastPush = [s \in Clients |-> NoPush]
    /\ fetchStarts = <<>>
    /\ lastTick = 0
    /\ lastJob = -1
    /\ emitted = <<>>
    /\ io = [open |-> TRUE, sockets |-> [s \in {"s1", "s2"} |-> "none"]]
    /\ activeTimers = {}
    /\ updateTimer = [isNull |-> TRUE]
    /\ retryConfig = [maxRetries |-> 0]
    /\ attempt = 0
    /\ rpc = "idle"
    /\ invocations = 0
    /\ fnLog = <<>>
    /\ delays = <<>>
    /\ lastError = <<>>
    /\ retryResult = <<>>
    /\ op = [kind |-> "idle"]
    /\ lastWrite = [kind |-> "none"]
    /\ lastDone = [kind |-> "none"]
    /\ records = <<>>
    /\ view = [fn |-> "none"]
    /\ input = <<>>
    /\ tokenMap = <<>>
    /\ lastMerge = NoMerge
    /\ limited = <<>>
    /\ mpc = "idle"
    /\ enableJupiter = TRUE
    /\ settled = <<>>
    /\ aggOut = [status |-> "idle"]

\* the reply of Redis to GET: a hit returns, a failure or a miss falls back to
\* the in-memory map and then to fetchFn
RedisGetReply(c, ok) ==
    /\ calls[c].pc = "redisGet"
    /\ LET data == IF ok THEN redisGet(redisStore, now) ELSE Null
           cached == IF ~data.isNull THEN data
                     ELSE getFromMemory(inMemoryCache, now)
       IN  /\ Advance(calls, [calls EXCEPT ![c] =
                        IF ~cached.isNull
                        THEN [calls[c] EXCEPT !.pc = "done", !.data = cached]
                        ELSE [calls[c] EXCEPT !.pc = "fetching"]],
                      lastPush, lastTick)
           /\ inMemoryCache' = IF ~data.isNull THEN inMemoryCache
                               ELSE memoryAfterGet(inMemoryCache, now)
    /\ redisAvailable' = IF ok THEN redisAvailable ELSE FALSE
    /\ UNCHANGED <<now, redisEnabled, redisStore, connectedClients, lastTick, lastJob>>

\* the reply of Redis to SETEX
RedisSetReply(c, ok) ==
    /\ calls[c].pc = "redisSet"
    /\ redisStore' = IF ok THEN Entry(calls[c].data.value, now + AGG_TTL)
                     ELSE redisStore
    /\ redisAvailable' = IF ok THEN redisAvailable ELSE FALSE
    /\ Advance(calls, [calls EXCEPT ![c] = [calls[c] EXCEPT !.pc = "done"]],
               lastPush, lastTick)
    /\ UNCHANGED <<now, inMemoryCache, redisEnabled, connectedClients,
                   lastTick, lastJob>>

\* client.on('connect') / client.on('ready')
RedisUp ==
    /\ redisEnabled
    /\ ~redisAvailable
    /\ redisAvailable' = TRUE
    /\ emitted' = <<>>
    /\ UNCHANGED <<now, inMemoryCache, redisEnabled, redisStore, calls,
                   connectedClients, lastPush, fetchStarts, lastTick, lastJob>>

\* client.on('error') / client.on('close')
RedisDown ==
    /\ redisAvailable
    /\ redisAvailable' = FALSE
    /\ emitted' = <<>>
    /\ UNCHANGED <<now, inMemoryCache, redisEnabled, redisStore, calls,
                   connectedClients, lastPush, fetchStarts, lastTick, lastJob>>

CacheNext ==
    \/ HttpRequest /\ UNCHANGED <<mergeVars, aggVars, retryVars, storeVars, viewVars, wsVars>>
    \/ ScheduledJob /\ UNCHANGED <<mergeVars, aggVars, retryVars, storeVars, viewVars, wsVars>>
    \/ \E c \in DOMAIN calls : \E ok \in BOOLEAN :
          RedisGetReply(c, ok) /\ UNCHANGED <<mergeVars, aggVars, retryVars, storeVars, viewVars, wsVars>>
    \/ \E c \in DOMAIN calls : \E data \in Snapshots :
          FetchReturn(c, data) /\ UNCHANGED <<mergeVars, aggVars, retryVars, storeVars, viewVars, wsVars>>
    \/ \E c \in DOMAIN calls : \E ok \in BOOLEAN :
          RedisSetReply(c, ok) /\ UNCHANGED <<mergeVars, aggVars, retryVars, storeVars, viewVars, wsVars>>
    \/ RedisUp /\ UNCHANGED <<mergeVars, aggVars, retryVars, storeVars, viewVars, wsVars>>
    \/ RedisDown /\ UNCHANGED <<mergeVars, aggVars, retryVars, storeVars, viewVars, wsVars>>
    \/ AdvanceClock /\ UNCHANGED <<mergeVars, aggVars, retryVars, storeVars, viewVars, wsVars>>

SpecCache == CacheInit /\ [][CacheNext]_vars

\* C1: a getOrSet call issued while the key is missing and another caller's
\* fetch function is pending joins that fetch: it never starts the fetch
\* function itself.
C1_SingleFlight ==
    \A c \in DOMAIN calls : calls[c].duringFetch => ~fetchPending(calls[c])

(***************************************************************************)
(* SpecRetry: one call of retryWithBackoff(fn, config) (utils/retry.ts).   *)
(* fn resolves or rejects at every invocation; delays are in milliseconds; *)
(* Math.random() is drawn in tenths.                                       *)
(***************************************************************************)
\* the errors fn rejects with: a plain Error, an AxiosError without a
\* response, AxiosErrors with a response of the given status
PlainError == [isAxiosError |-> FALSE, response |-> Undefined]

AxiosError(response) == [isAxiosError |-> TRUE, response |-> response]

Statuses == {404, 429, 503}

Errors == {PlainError, AxiosError(Undefined)}
              \cup { AxiosError(Some([status |-> st])) : st \in Statuses }

\* defaultConfig.retryableStatusCodes
retryableStatusCodes == {429, 500, 502, 503, 504}

\* the values Math.random() takes in this model, in tenths
Randoms == {0, 5, 9}

BaseDelays == {100}

MaxDelays == {250, 1000}

RetryConfigs ==
    [maxRetries : 0..MaxMaxRetries, baseDelay : BaseDelays, maxDelay : MaxDelays,
     retryableStatusCodes : {retryableStatusCodes}]

RECURSIVE pow2(_)
pow2(n) == IF n = 0 THEN 1 ELSE 2 * pow2(n - 1)

Min(a, b) == IF a <= b THEN a ELSE b

\* calculateBackoffDelay with Math.random() = random / 10; baseDelay is a
\* multiple of 100, so the jitter is a whole number of milliseconds
calculateBackoffDelay(k, baseDelay, maxDelay, random) ==
    LET exponentialDelay == baseDelay * pow2(k)
        jitter == (random * 3 * exponentialDelay) \div 100
    IN  Min(exponentialDelay + jitter, maxDelay)

\* axios.isAxiosError(error) && error.response &&
\* retryableStatusCodes.includes(error.response.status)
isRetryable(error, codes) ==
    /\ error.isAxiosError
    /\ error.response # Undefined
    /\ error.response[1].status \in codes

\* if (attempt === maxRetries) break;
lastAttempt_OneShort(k, maxRetries) == k + 1 >= maxRetries

lastAttempt(k, maxRetries) == k = maxRetries

\* if (!isRetryable && !axios.isAxiosError(error)) throw error;
rethrown(error, codes) == ~isRetryable(error, codes) /\ ~error.isAxiosError

RetryInit ==
    /\ retryConfig \in RetryConfigs
    /\ attempt = 0
    /\ rpc = "call"
    /\ invocations = 1
    /\ fnLog = <<>>
    /\ delays = <<>>
    /\ lastError = <<>>
    /\ retryResult = <<>>
    /\ op = [kind |-> "idle"]
    /\ lastWrite = [kind |-> "none"]
    /\ lastDone = [kind |-> "none"]
    /\ records = <<>>
    /\ view = [fn |-> "none"]
    \* the rest of the system is idle
    /\ input = <<>>
    /\ tokenMap = <<>>
    /\ lastMerge = NoMerge
    /\ limited = <<>>
    /\ mpc = "idle"
    /\ enableJupiter = FALSE
    /\ settled = <<>>
    /\ aggOut = [status |-> "idle"]
    /\ now = 0
    /\ inMemoryCache = NoEntry
    /\ redisEnabled = FALSE
    /\ redisAvailable = FALSE
    /\ redisStore = NoEntry
    /\ calls = <<>>
    /\ connectedClients = <<>>
    /\ lastPush = [s \in Clients |-> NoPush]
    /\ fetchStarts = <<>>
    /\ lastTick = 0
    /\ lastJob = -1
    /\ emitted = <<>>
    /\ io = [open |-> TRUE, sockets |-> [s \in {"s1", "s2"} |-> "none"]]
    /\ activeTimers = {}
    /\ updateTimer = [isNull |-> TRUE]

\* return await fn() with fn resolving
FnResolve ==
    /\ rpc = "call"
    /\ fnLog' = Append(fnLog, [ok |-> TRUE, value |-> "success"])
    /\ retryResult' = Some([ok |-> TRUE, value |-> "success"])
    /\ rpc' = "returned"
    /\ UNCHANGED <<retryConfig, attempt, invocations, delays, lastError>>

\* fn rejects with error: the catch block, up to `await sleep(delay)` or to
\* the throw that leaves the function
FnReject(error, random) ==
    /\ rpc = "call"
    /\ fnLog' = Append(fnLog, [ok |-> FALSE, error |-> error])
    /\ lastError' = Some(error)
    /\ IF lastAttempt(attempt, retryConfig.maxRetries)
          \/ rethrown(error, retryConfig.retryableStatusCodes)
       THEN /\ rpc' = "thrown"
            /\ retryResult' = Some([ok |-> FALSE, error |-> error])
            /\ UNCHANGED delays
       ELSE /\ rpc' = "sleep"
            /\ delays' = Append(delays,
                            calculateBackoffDelay(attempt, retryConfig.baseDelay,
                                                  retryConfig.maxDelay, random))
            /\ UNCHANGED retryResult
    /\ UNCHANGED <<retryConfig, attempt, invocations>>

\* sleep(delay) resolves: attempt++ and the next fn()
SleepDone ==
    /\ rpc = "sleep"
    /\ attempt' = attempt + 1
    /\ invocations' = invocations + 1
    /\ rpc' = "call"
    /\ UNCHANGED <<retryConfig, fnLog, delays, lastError, retryResult>>

RetryNext ==
    \/ FnResolve /\ UNCHANGED <<mergeVars, aggVars, sysVars, storeVars, viewVars, wsVars>>
    \/ \E error \in Errors : \E random \in Randoms :
          FnReject(error, random) /\ UNCHANGED <<mergeVars, aggVars, sysVars, storeVars, viewVars, wsVars>>
    \/ SleepDone /\ UNCHANGED <<mergeVars, aggVars, sysVars, storeVars, viewVars, wsVars>>

SpecRetry == RetryInit /\ [][RetryNext]_vars

(***************************************************************************)
(* Claims about retryWithBackoff, checked under SpecRetry.                 *)
(***************************************************************************)
Failed(i) == ~fnLog[i].ok

RetryableFailure(i) ==
    Failed(i) /\ isRetryable(fnLog[i].error, retryConfig.retryableStatusCodes)

\* C13: a failure that is not classified retryable (a status outside 429 and
\* 5xx, an error without a response) ends the call at once: it is the last
\* invocation, the call has thrown, and no delay was slept after it.
C13_OnlyRetryableRetried ==
    \A i \in DOMAIN fnLog :
        (Failed(i) /\ ~RetryableFailure(i))
        => /\ i = Len(fnLog)
           /\ rpc = "thrown"
           /\ invocations = i
           /\ Len(delays) = i - 1

OnlyRetryableFailures == \A i \in DOMAIN fnLog : Failed(i) => RetryableFailure(i)

\* C14: with only retryable failures the operation is invoked one call after
\* the other and the call stops at the first success: f failures and then a
\* success return the success value after f + 1 invocations, and failures on
\* all attempts throw the error of the last attempt after maxRetries + 1
\* invocations.
C14_SequentialUntilSuccess ==
    OnlyRetryableFailures
    => /\ invocations <= retryConfig.maxRetries + 1
       /\ invocations = Len(fnLog) + (IF rpc = "call" THEN 1 ELSE 0)
       /\ \A i \in 1..(Len(fnLog) - 1) : Failed(i)
       /\ Len(delays) = Cardinality({ i \in DOMAIN fnLog : Failed(i) })
                          - (IF rpc = "thrown" THEN 1 ELSE 0)
       /\ (Len(fnLog) > 0 /\ fnLog[Len(fnLog)].ok)
          => /\ rpc = "returned"
             /\ retryResult = Some(fnLog[Len(fnLog)])
       /\ rpc = "returned" => fnLog[Len(fnLog)].ok
       /\ rpc = "thrown"
          => /\ invocations = retryConfig.maxRetries + 1
             /\ Failed(Len(fnLog))
             /\ retryResult = Some(fnLog[Len(fnLog)])

\* fails twice with a retryable error, then succeeds, 4 attempts allowed
C14_Witness ==
    /\ retryConfig.maxRetries = 3
    /\ rpc = "returned"
    /\ invocations = 3
    /\ Len(fnLog) = 3
    /\ RetryableFailure(1)
    /\ RetryableFailure(2)
    /\ fnLog[1].error # fnLog[2].error

OnlyPlainErrors == \A i \in DOMAIN fnLog : Failed(i) => fnLog[i].error = PlainError

\* C15: failures are retried whatever the kind of error: when the operation
\* rejects with plain Errors only, the call throws only after maxRetries + 1
\* invocations.
C15_PlainErrorsRetried ==
    (OnlyPlainErrors /\ rpc = "thrown")
    => invocations = retryConfig.maxRetries + 1

\* C16: the delay slept before attempt k (k >= 1) is
\* min(baseDelay * 2^k + jitter, maxDelay) with 0 <= jitter <= 0.3 * baseDelay * 2^k;
\* it never exceeds maxDelay and, below the cap, is greater than the delays
\* slept before the earlier attempts.
C16_DelayBeforeAttempt ==
    \A k \in DOMAIN delays :
        LET e == retryConfig.baseDelay * pow2(k)
        IN  /\ delays[k] >= Min(e, retryConfig.maxDelay)
            /\ 10 * delays[k] <= Min(13 * e, 10 * retryConfig.maxDelay)
            /\ delays[k] <= retryConfig.maxDelay
            /\ delays[k] < retryConfig.maxDelay
               => \A j \in 1..(k - 1) : delays[j] < delays[k]

(***************************************************************************)
(* SpecStore: one client of CacheService calling get, set, del and         *)
(* getOrSet on one key, one operation after the other (as cache.test.ts    *)
(* does), with ENABLE_REDIS unset; the Redis connection goes up and down   *)
(* and time passes in between.                                             *)
(***************************************************************************)
\* parseInt(process.env.REDIS_TTL || '30', 10), in seconds
defaultTTL == 30

Values == {"v1", "v2"}

\* the ttl argument of set and getOrSet
Ttls == {Undefined, Some(15)}

\* const cacheTTL = ttl || this.defaultTTL
cacheTTL(ttl) == IF NumTruthy(ttl) THEN ttl[1] ELSE defaultTTL

\* what fetchFn settles with
Outcomes == { [ok |-> TRUE, value |-> v] : v \in Values }
                \cup { [ok |-> FALSE, value |-> "error"] }

Idle == [kind |-> "idle"]

NoWrite == [kind |-> "none"]

NoneDone == [kind |-> "none"]

\* an operation entering the service
NewOp(kind, value, ttl) ==
    [kind |-> kind, pc |-> "start", value |-> value, ttl |-> ttl,
     computed |-> FALSE, fetchFailed |-> FALSE, redisError |-> FALSE,
     \* the tiers as they were when the operation was called
     memoryBefore |-> inMemoryCache, redisBefore |-> redisStore]

\* the operation returns result to the client (or throws it, when failed)
Complete(o, result, failed) ==
    /\ op' = Idle
    /\ lastDone' = [kind |-> o.kind, result |-> result, failed |-> failed,
                    computed |-> o.computed, fetchFailed |-> o.fetchFailed,
                    redisError |-> o.redisError,
                    doneAt |-> now,
                    \* the operation before this one was a getOrSet whose
                    \* fetchFn failed
                    afterFailure |-> /\ lastDone.kind = "getOrSet"
                                     /\ lastDone.fetchFailed,
                    after |-> lastWrite,
                    memoryBefore |-> o.memoryBefore,
                    redisBefore |-> o.redisBefore]

\* get() resolved with cached: get returns it; getOrSet returns it on a hit
\* and calls fetchFn on a miss
GetResolved(o, cached) ==
    IF o.kind = "getOrSet" /\ cached.isNull
    THEN /\ op' = [o EXCEPT !.pc = "fetching", !.computed = TRUE]
         /\ UNCHANGED lastDone
    ELSE Complete(o, cached, FALSE)

\* get(key), up to its await of Redis or to its return
CallGet(o) ==
    IF redisUsable
    THEN /\ op' = [o EXCEPT !.pc = "redisGet"]
         /\ UNCHANGED <<inMemoryCache, lastDone>>
    ELSE /\ GetResolved(o, getFromMemory(inMemoryCache, now))
         /\ inMemoryCache' = memoryAfterGet(inMemoryCache, now)

\* set(key, value, ttl), up to its await of Redis or to its return; result is
\* what the caller of o returns once set has returned
CallSet(o, value, result) ==
    /\ inMemoryCache' = Entry(value, now + cacheTTL(o.ttl))
    /\ IF redisUsable
       THEN /\ op' = [o EXCEPT !.pc = "redisSetex", !.value = value]
            /\ UNCHANGED <<lastDone, lastWrite>>
       ELSE /\ Complete(o, result, FALSE)
            /\ lastWrite' = [kind |-> "set", by |-> o.kind, value |-> value,
                             expiresAt |-> now + cacheTTL(o.ttl)]

StoreInit ==
    /\ now = 0
    /\ inMemoryCache = NoEntry
    \* ENABLE_REDIS; when 'false', initializeRedis creates no client
    /\ redisEnabled \in BOOLEAN
    /\ redisAvailable \in IF redisEnabled THEN BOOLEAN ELSE {FALSE}
    /\ redisStore = NoEntry
    /\ op = Idle
    /\ lastWrite = NoWrite
    /\ lastDone = NoneDone
    /\ records = <<>>
    /\ view = [fn |-> "none"]
    \* the rest of the system is idle
    /\ calls = <<>>
    /\ connectedClients = <<>>
    /\ lastPush = [s \in Clients |-> NoPush]
    /\ fetchStarts = <<>>
    /\ lastTick = 0
    /\ lastJob = -1
    /\ emitted = <<>>
    /\ io = [open |-> TRUE, sockets |-> [s \in {"s1", "s2"} |-> "none"]]
    /\ activeTimers = {}
    /\ updateTimer = [isNull |-> TRUE]
    /\ input = <<>>
    /\ tokenMap = <<>>
    /\ lastMerge = NoMerge
    /\ limited = <<>>
    /\ mpc = "idle"
    /\ enableJupiter = FALSE
    /\ settled = <<>>
    /\ aggOut = [status |-> "idle"]
    /\ retryConfig = [maxRetries |-> 0]
    /\ attempt = 0
    /\ rpc = "idle"
    /\ invocations = 0
    /\ fnLog = <<>>
    /\ delays = <<>>
    /\ lastError = <<>>
    /\ retryResult = <<>>

\* the availability flag after an awaited Redis command settled: the catch
\* blocks of get, set and del set this.redisAvailable = false
afterReply_Kept(ok) == redisAvailable

afterReply(ok) == IF ok THEN redisAvailable ELSE FALSE

\* await cacheService.get(key)
Get ==
    /\ op = Idle
    /\ CallGet(NewOp("get", "none", Undefined))
    /\ UNCHANGED <<now, redisEnabled, redisAvailable, redisStore, lastWrite>>

\* await cacheService.getOrSet(key, fetchFn, ttl)
GetOrSet(ttl) ==
    /\ op = Idle
    /\ CallGet(NewOp("getOrSet", "none", ttl))
    /\ UNCHANGED <<now, redisEnabled, redisAvailable, redisStore, lastWrite>>

\* the reply of Redis to GET inside get(): a value returns, a failure or nil
\* falls back to the in-memory map
GetReply(ok) ==
    /\ op.kind \in {"get", "getOrSet"}
    /\ op.pc = "redisGet"
    /\ LET data == IF ok THEN redisGet(redisStore, now) ELSE Null
           o == [op EXCEPT !.redisError = ~ok]
       IN  IF ~data.isNull
           THEN /\ GetResolved(o, data)
                /\ UNCHANGED inMemoryCache
           ELSE /\ GetResolved(o, getFromMemory(inMemoryCache, now))
                /\ inMemoryCache' = memoryAfterGet(inMemoryCache, now)
    /\ redisAvailable' = afterReply(ok)
    /\ UNCHANGED <<now, redisEnabled, redisStore, lastWrite>>

\* set is reached only when `await fetchFn()` did not throw
getOrSetWrites(outcome) == outcome.ok

\* fetchFn settles: a rejection propagates to the caller, a value is set and
\* then returned
FetchSettle(outcome) ==
    /\ op.kind = "getOrSet"
    /\ op.pc = "fetching"
    /\ LET o == [op EXCEPT !.fetchFailed = ~outcome.ok]
       IN  IF getOrSetWrites(outcome)
           THEN CallSet(o, outcome.value, Val(outcome.value))
           ELSE /\ Complete(o, Val(outcome.value), TRUE)
                /\ UNCHANGED <<inMemoryCache, lastWrite>>
    /\ UNCHANGED <<now, redisEnabled, redisAvailable, redisStore>>

\* await cacheService.set(key, value, ttl)
Set(value, ttl) ==
    /\ op = Idle
    /\ CallSet(NewOp("set", value, ttl), value, Null)
    /\ UNCHANGED <<now, redisEnabled, redisAvailable, redisStore>>

\* the reply of Redis to SETEX inside set()
SetexReply(ok) ==
    /\ op.kind \in {"set", "getOrSet"}
    /\ op.pc = "redisSetex"
    /\ redisStore' = IF ok THEN Entry(op.value, now + cacheTTL(op.ttl))
                     ELSE redisStore
    /\ redisAvailable' = afterReply(ok)
    /\ Complete([op EXCEPT !.redisError = @ \/ ~ok],
                IF op.kind = "set" THEN Null ELSE Val(op.value), FALSE)
    /\ lastWrite' = [kind |-> "set", by |-> op.kind, value |-> op.value,
                     expiresAt |-> inMemoryCache.expiresAt]
    /\ UNCHANGED <<now, redisEnabled, inMemoryCache>>

\* await cacheService.del(key), up to its await of Redis or to its return
Del ==
    /\ op = Idle
    /\ inMemoryCache' = NoEntry
    /\ IF redisUsable
       THEN /\ op' = [NewOp("del", "none", Undefined) EXCEPT !.pc = "redisDel"]
            /\ UNCHANGED <<lastDone, lastWrite>>
       ELSE /\ Complete(NewOp("del", "none", Undefined), Null, FALSE)
            /\ lastWrite' = [kind |-> "del"]
    /\ UNCHANGED <<now, redisEnabled, redisAvailable, redisStore>>

\* the reply of Redis to DEL inside del()
DelReply(ok) ==
    /\ op.kind = "del"
    /\ op.pc = "redisDel"
    /\ redisStore' = IF ok THEN NoEntry ELSE redisStore
    /\ redisAvailable' = afterReply(ok)
    /\ Complete([op EXCEPT !.redisError = ~ok], Null, FALSE)
    /\ lastWrite' = [kind |-> "del"]
    /\ UNCHANGED <<now, redisEnabled, inMemoryCache>>

\* time passes
StoreClock ==
    /\ now + updateInterval <= MaxTicks * updateInterval
    /\ now' = now + updateInterval
    /\ UNCHANGED <<cacheVars, storeVars>>

StoreIdle ==
    <<calls, connectedClients, lastPush, fetchStarts, lastTick, lastJob, emitted>>

StoreNext ==
    \/ Get /\ UNCHANGED <<mergeVars, aggVars, retryVars, StoreIdle, viewVars, wsVars>>
    \/ \E ttl \in Ttls :
          GetOrSet(ttl) /\ UNCHANGED <<mergeVars, aggVars, retryVars, StoreIdle, viewVars, wsVars>>
    \/ \E ok \in BOOLEAN :
          GetReply(ok) /\ UNCHANGED <<mergeVars, aggVars, retryVars, StoreIdle, viewVars, wsVars>>
    \/ \E outcome \in Outcomes :
          FetchSettle(outcome) /\ UNCHANGED <<mergeVars, aggVars, retryVars, StoreIdle, viewVars, wsVars>>
    \/ \E value \in Values : \E ttl \in Ttls :
          Set(value, ttl) /\ UNCHANGED <<mergeVars, aggVars, retryVars, StoreIdle, viewVars, wsVars>>
    \/ \E ok \in BOOLEAN :
          SetexReply(ok) /\ UNCHANGED <<mergeVars, aggVars, retryVars, StoreIdle, viewVars, wsVars>>
    \/ Del /\ UNCHANGED <<mergeVars, aggVars, retryVars, StoreIdle, viewVars, wsVars>>
    \/ \E ok \in BOOLEAN :
          DelReply(ok) /\ UNCHANGED <<mergeVars, aggVars, retryVars, StoreIdle, viewVars, wsVars>>
    \/ RedisUp /\ UNCHANGED <<mergeVars, aggVars, retryVars, storeVars, viewVars, wsVars>>
    \/ RedisDown /\ UNCHANGED <<mergeVars, aggVars, retryVars, storeVars, viewVars, wsVars>>
    \/ StoreClock /\ UNCHANGED <<mergeVars, aggVars, retryVars, StoreIdle, viewVars, wsVars>>

SpecStore == StoreInit /\ [][StoreNext]_vars

(***************************************************************************)
(* Claims about CacheService, checked under SpecStore.                     *)
(***************************************************************************)
\* C17: after set(key, v, ttl) completed, a get that returns before the
\* entry expires, with no set or del of the key in between, returns v,
\* whatever the Redis connection did in the meantime.
C17_GetAfterSet ==
    ( /\ lastDone.kind = "get"
      /\ lastWrite.kind = "set"
      /\ lastDone.doneAt < lastWrite.expiresAt )
    => lastDone.result = Val(lastWrite.value)

\* C18: after del(key) completed, get returns null until the next set of the
\* key, whatever the Redis connection did in the meantime.
C18_GetAfterDel ==
    (lastDone.kind = "get" /\ lastWrite.kind = "del")
    => lastDone.result = Null

\* C19: getOrSet returns the cached value on a hit without calling the
\* compute function; on a miss it calls it, and the result is in the cache
\* when it is returned; a getOrSet following one that stored its result
\* returns, within the TTL, that value without computing again.
C19_GetOrSetCaches ==
    (lastDone.kind = "getOrSet" /\ ~lastDone.fetchFailed)
    => /\ lastDone.computed
          => /\ lastWrite.kind = "set"
             /\ lastWrite.by = "getOrSet"
             /\ lastDone.result = Val(lastWrite.value)
             /\ op = Idle
                => inMemoryCache = Entry(lastWrite.value, lastWrite.expiresAt)
       /\ ( /\ lastDone.after.kind = "set"
            /\ lastDone.after.by = "getOrSet"
            /\ lastDone.doneAt < lastDone.after.expiresAt )
          => /\ ~lastDone.computed
             /\ lastDone.result = Val(lastDone.after.value)

\* C20: when the compute function fails, getOrSet throws its error and has
\* written nothing: Redis holds what it held when getOrSet was called, and
\* the in-memory map too, but for an expired entry that get() dropped; and
\* the getOrSet that follows it calls the compute function again.
C20_FailureNotCached ==
    /\ (lastDone.kind = "getOrSet" /\ lastDone.fetchFailed /\ op = Idle)
       => /\ lastDone.failed
          /\ lastDone.result = Val("error")
          /\ lastWrite = lastDone.after
          /\ redisStore = lastDone.redisBefore
          /\ \/ inMemoryCache = lastDone.memoryBefore
             \/ /\ inMemoryCache = NoEntry
                /\ getFromMemory(lastDone.memoryBefore, lastDone.doneAt) = Null
    /\ (lastDone.kind = "getOrSet" /\ lastDone.afterFailure)
       => lastDone.computed

\* C21: a Redis error inside get, set or del is not thrown to the caller:
\* the call returns normally and leaves the availability flag false; get
\* returns what the in-memory map holds; and set has written the in-memory
\* map whether Redis was tried or not, and whether SETEX succeeded or not.
C21_RedisErrorsSwallowed ==
    /\ [][ ( /\ op # Idle
             /\ op' = Idle
             /\ lastDone'.kind \in {"get", "set", "del"}
             /\ lastDone'.redisError )
           => /\ ~lastDone'.failed
              /\ ~redisAvailable'
              /\ lastDone'.kind = "get"
                 => lastDone'.result = getFromMemory(inMemoryCache, now)
              /\ lastDone'.kind \in {"set", "del"}
                 => lastDone'.result = Null ]_vars
    /\ [] ( (lastDone.kind = "set" /\ op = Idle)
            => /\ ~lastDone.failed
               /\ lastWrite.kind = "set"
               /\ inMemoryCache = Entry(lastWrite.value, lastWrite.expiresAt) )

\* a set whose SETEX failed has returned, and the in-memory map holds a value
\* that Redis does not
C21_Witness ==
    /\ lastDone.kind = "set"
    /\ lastDone.redisError
    /\ op = Idle
    /\ inMemoryCache.present
    /\ redisStore.present
    /\ redisStore.value # inMemoryCache.value

(***************************************************************************)
(* SpecView: filterTokens, sortTokens and paginateTokens applied to a list *)
(* of records, alone and as GET /api/tokens and the WebSocket projection   *)
(* apply them.  The functions keep no state: a behaviour is one call.       *)
(***************************************************************************)
\* four records: volumes 300, 100, 500, 100; liquidities 200, 200, 300, 50;
\* 1h changes 0, 1, none, 9; 24h changes none, 2, 5, 0; 7d change of the last 0
ViewTokens ==
    << TokenOf(<<"0", "x", "a", "b">>, 2),
       TokenOf(<<"0", "x", "A", "B">>, 4),
       TokenOf(<<"0", "x", "c", "d">>, 5),
       [TokenOf(<<"0", "x", "1", "2">>, 6) EXCEPT
            !.price_1hr_change = Some(9), !.price_24hr_change = Some(0),
            !.price_7d_change = Some(0)] >>

\* more records than the default page holds
LongLen == 22

LongList ==
    [i \in 1..LongLen |->
        [ViewTokens[1] EXCEPT !.token_address = toString(i), !.volume_sol = i]]

\* the lists of distinct records of ViewTokens, up to MaxTokens long
Injections ==
    { g \in UNION { [1..m -> DOMAIN ViewTokens] : m \in 0..MaxTokens } :
        \A i, j \in DOMAIN g : i # j => g[i] # g[j] }

RecordLists ==
    { [i \in DOMAIN g |-> ViewTokens[g[i]]] : g \in Injections } \cup {LongList}

FilterOptionsSet ==
    [timePeriod : {Undefined, Some("1h"), Some("24h"), Some("7d")},
     minVolume : {Undefined, Some(300)},
     minLiquidity : {Undefined, Some(200)},
     protocol : {Undefined, Some(<<"R", "A">>)}]

SortOptionsSet ==
    [field : {"volume", "price_change", "market_cap", "liquidity",
              "transaction_count", "name"},
     order : {"asc", "desc"}]

Cursors ==
    {Undefined, Some(<<>>), Some(<<"0">>), Some(<<"1">>), Some(<<"2">>),
     Some(<<"-", "1">>), Some(<<"x">>),
     Some(<<"n", "o", "t", "-", "a", "-", "n", "u", "m", "b", "e", "r">>)}

PaginationOptionsSet ==
    [limit : {Undefined, Some(0), Some(1), Some(2), Some(-1)}, cursor : Cursors]

\* req.query of GET /api/tokens: every parameter is a string or absent
Queries ==
    [timePeriod : {Undefined}, minVolume : {Undefined, Some(<<"3", "0", "0">>)},
     minLiquidity : {Undefined}, protocol : {Undefined},
     sortBy : {Undefined, Some("liquidity")}, order : {Undefined, Some("asc")},
     limit : {Undefined, Some(<<"0">>), Some(<<"2">>), Some(<<"-", "1">>),
              Some(<<"a", "l", "l">>)},
     cursor : {Undefined, Some(<<"1">>)}]

\* the preferences a subscriber sends
ViewPreferences ==
    [filter : {Undefined},
     sort : {Undefined, Some([field |-> "volume", order |-> "desc"])},
     pagination : {Undefined} \cup
         { Some([limit |-> l, cursor |-> Undefined]) :
             l \in {Undefined, Some(0), Some(2), Some(-1)} }]

\* parseFloat of the literals of Queries, which have neither point nor exponent
parseFloat(str) == parseInt(str)

\* router.get('/') once aggregateTokens resolved with tokens
getTokens(tokens, query) ==
    LET filterOptions ==
            [timePeriod |-> query.timePeriod,
             minVolume |-> IF SeqTruthy(query.minVolume)
                           THEN parseFloat(query.minVolume[1]) ELSE Undefined,
             minLiquidity |-> IF SeqTruthy(query.minLiquidity)
                              THEN parseFloat(query.minLiquidity[1])
                              ELSE Undefined,
             protocol |-> query.protocol]
        sortOptions ==
            [field |-> IF StrTruthy(query.sortBy) THEN query.sortBy[1]
                       ELSE "volume",
             order |-> IF StrTruthy(query.order) THEN query.order[1]
                       ELSE "desc"]
        paginationOptions ==
            [limit |-> IF SeqTruthy(query.limit) THEN parseInt(query.limit[1])
                       ELSE Some(20),
             cursor |-> query.cursor]
        sorted == sortTokens(filterTokens(tokens, filterOptions), sortOptions)
        page == paginateTokens(sorted, paginationOptions)
    IN  [tokens |-> page.tokens,
         metadata |-> [total |-> Len(sorted), returned |-> Len(page.tokens),
                       next_cursor |-> page.next_cursor]]

\* the characters of the names and tickers of the records
chars(str) ==
    CASE str = "Alpha" -> <<"A", "l", "p", "h", "a">>
      [] str = "Beta" -> <<"B", "e", "t", "a">>
      [] str = "Jup" -> <<"J", "u", "p">>
      [] str = "Gamma" -> <<"G", "a", "m", "m", "a">>
      [] str = "Delta" -> <<"D", "e", "l", "t", "a">>
      [] str = "ALP" -> <<"A", "L", "P">>
      [] str = "BET" -> <<"B", "E", "T">>
      [] str = "JUP" -> <<"J", "U", "P">>
      [] str = "GAM" -> <<"G", "A", "M">>
      [] str = "DEL" -> <<"D", "E", "L">>
      [] OTHER -> <<>>

\* req.query.q and req.params.address
SearchQueries == { <<"a", "L">>, <<"B", "E">>, <<"0", "X", "c">>, <<"z">> }

LookupAddresses == Addresses \cup { <<"0", "X", "C", "D">>, <<"0", "x", "e", "f">> }

\* GET /api/tokens/search?q=query with aggregateTokens resolving with tokens
searchTokens(tokens, query) ==
    LET filtered ==
            SelectSeq(tokens, LAMBDA token :
                \/ includes(toLowerCase(chars(token.token_name)), toLowerCase(query))
                \/ includes(toLowerCase(chars(token.token_ticker)), toLowerCase(query))
                \/ includes(toLowerCase(token.token_address), toLowerCase(query)))
    IN  [tokens |-> slice(filtered, 0, 20),
         metadata |-> [total |-> Len(filtered)]]

\* GET /api/tokens/:address: tokens.find(...), undefined when none matches
findToken(tokens, address) ==
    LET found == SelectSeq(tokens, LAMBDA t :
                     toLowerCase(t.token_address) = toLowerCase(address))
    IN  IF found = <<>> THEN Undefined ELSE Some(found[1])

\* the array passed to filterTokens, after the call: filterTokens spreads it
\* into a new array and filter() returns new arrays
argumentAfterFilter(tokens, options) == tokens

\* mutant: sort() is applied to the array that was passed
argumentAfterSort_InPlace(tokens, options) == sortTokens(tokens, options)

\* the array passed to sortTokens, after the call: sort() is applied to the
\* copy [...tokens]
argumentAfterSort(tokens, options) == tokens

\* the limits of a client that pages through the list
PageLimitsThrough == {1, 2, 3}

\* a client pages through tokens: paginateTokens with no cursor, then with
\* each next_cursor it was given, until none comes back or budget calls
\* were made
RECURSIVE pageThrough(_, _, _, _)
pageThrough(tokens, limit, cursor, budget) ==
    IF budget = 0 THEN [pages |-> <<>>, finished |-> FALSE]
    ELSE LET page == paginateTokens(tokens, [limit |-> Some(limit),
                                             cursor |-> cursor])
         IN  IF page.next_cursor = Undefined
             THEN [pages |-> <<page.tokens>>, finished |-> TRUE]
             ELSE LET rest == pageThrough(tokens, limit, page.next_cursor,
                                          budget - 1)
                  IN  [pages |-> <<page.tokens>> \o rest.pages,
                       finished |-> rest.finished]

NoView == [fn |-> "none"]

ViewInit ==
    /\ records \in RecordLists
    /\ view = NoView
    \* the rest of the system is idle
    /\ now = 0
    /\ inMemoryCache = NoEntry
    /\ redisEnabled = FALSE
    /\ redisAvailable = FALSE
    /\ redisStore = NoEntry
    /\ calls = <<>>
    /\ connectedClients = <<>>
    /\ lastPush = [s \in Clients |-> NoPush]
    /\ fetchStarts = <<>>
    /\ lastTick = 0
    /\ lastJob = -1
    /\ emitted = <<>>
    /\ io = [open |-> TRUE, sockets |-> [s \in {"s1", "s2"} |-> "none"]]
    /\ activeTimers = {}
    /\ updateTimer = [isNull |-> TRUE]
    /\ input = <<>>
    /\ tokenMap = <<>>
    /\ lastMerge = NoMerge
    /\ limited = <<>>
    /\ mpc = "idle"
    /\ enableJupiter = FALSE
    /\ settled = <<>>
    /\ aggOut = [status |-> "idle"]
    /\ retryConfig = [maxRetries |-> 0]
    /\ attempt = 0
    /\ rpc = "idle"
    /\ invocations = 0
    /\ fnLog = <<>>
    /\ delays = <<>>
    /\ lastError = <<>>
    /\ retryResult = <<>>
    /\ op = [kind |-> "idle"]
    /\ lastWrite = [kind |-> "none"]
    /\ lastDone = [kind |-> "none"]

\* aggregator.filterTokens(records, options)
FilterTokens(options) ==
    /\ view = NoView
    /\ view' = [fn |-> "filterTokens", options |-> options,
                tokens |-> filterTokens(records, options)]
    /\ records' = argumentAfterFilter(records, options)

\* aggregator.sortTokens(records, options)
SortTokens(options) ==
    /\ view = NoView
    /\ view' = [fn |-> "sortTokens", options |-> options,
                tokens |-> sortTokens(records, options)]
    /\ records' = argumentAfterSort(records, options)

\* aggregator.paginateTokens(records, options): slice() copies
PaginateTokens(options) ==
    /\ view = NoView
    /\ view' = [fn |-> "paginateTokens", options |-> options,
                tokens |-> paginateTokens(records, options).tokens,
                next_cursor |-> paginateTokens(records, options).next_cursor]
    /\ UNCHANGED records

\* GET /api/tokens with aggregateTokens resolving with records: the array
\* is passed to filterTokens, whose result goes to sortTokens
GetTokens(query) ==
    /\ view = NoView
    /\ view' = [fn |-> "getTokens", options |-> query,
                tokens |-> getTokens(records, query).tokens,
                next_cursor |-> getTokens(records, query).metadata.next_cursor]
    /\ records' = argumentAfterFilter(records, query)

\* GET /api/tokens/search with aggregateTokens resolving with records:
\* filter() and slice() copy
SearchTokens(query) ==
    /\ view = NoView
    /\ view' = [fn |-> "search", options |-> query,
                tokens |-> searchTokens(records, query).tokens,
                total |-> searchTokens(records, query).metadata.total]
    /\ UNCHANGED records

\* GET /api/tokens/:address with aggregateTokens resolving with records:
\* find() reads
LookupToken(address) ==
    /\ view = NoView
    /\ view' = [fn |-> "lookup", options |-> address,
                token |-> findToken(records, address)]
    /\ UNCHANGED records

\* sendFilteredData(socket, preferences) with aggregateTokens resolving with
\* records: the array goes to filterTokens when a filter is given, else to
\* sortTokens when a sort is given, else to paginateTokens
SendFilteredData(preferences) ==
    /\ view = NoView
    /\ view' = [fn |-> "sendFilteredData", options |-> preferences,
                tokens |-> aggregateAndProcessTokens(records, Some(preferences))]
    /\ records' =
         IF records = <<>> THEN records
         ELSE IF preferences.filter # Undefined
         THEN argumentAfterFilter(records, preferences.filter[1])
         ELSE IF preferences.sort # Undefined
         THEN argumentAfterSort(records, preferences.sort[1])
         ELSE records

\* a client pages through records with a limit; a list of n records takes
\* no more than n + 1 calls
PageThrough(limit) ==
    /\ view = NoView
    /\ view' = [fn |-> "pageThrough", options |-> limit,
                pages |-> pageThrough(records, limit, Undefined,
                                      Len(records) + 1).pages,
                finished |-> pageThrough(records, limit, Undefined,
                                         Len(records) + 1).finished]
    /\ UNCHANGED records

ViewNext ==
    \/ \E options \in FilterOptionsSet :
          FilterTokens(options) /\ UNCHANGED <<mergeVars, aggVars, sysVars, retryVars, storeVars, wsVars>>
    \/ \E options \in SortOptionsSet :
          SortTokens(options) /\ UNCHANGED <<mergeVars, aggVars, sysVars, retryVars, storeVars, wsVars>>
    \/ \E options \in PaginationOptionsSet :
          PaginateTokens(options) /\ UNCHANGED <<mergeVars, aggVars, sysVars, retryVars, storeVars, wsVars>>
    \/ \E query \in Queries :
          GetTokens(query) /\ UNCHANGED <<mergeVars, aggVars, sysVars, retryVars, storeVars, wsVars>>
    \/ \E preferences \in ViewPreferences :
          SendFilteredData(preferences) /\ UNCHANGED <<mergeVars, aggVars, sysVars, retryVars, storeVars, wsVars>>
    \/ \E query \in SearchQueries :
          SearchTokens(query) /\ UNCHANGED <<mergeVars, aggVars, sysVars, retryVars, storeVars, wsVars>>
    \/ \E address \in LookupAddresses :
          LookupToken(address) /\ UNCHANGED <<mergeVars, aggVars, sysVars, retryVars, storeVars, wsVars>>
    \/ \E limit \in PageLimitsThrough :
          PageThrough(limit) /\ UNCHANGED <<mergeVars, aggVars, sysVars, retryVars, storeVars, wsVars>>

SpecView == ViewInit /\ [][ViewNext]_vars

(***************************************************************************)
(* Claims about the view pipeline, checked under SpecView.                 *)
(***************************************************************************)
\* the change of a record over a period, as the Token interface names it
ChangeOver(t, timePeriod) ==
    CASE timePeriod = "1h" -> t.price_1hr_change
      [] timePeriod = "24h" -> t.price_24hr_change
      [] OTHER -> t.price_7d_change

\* the record satisfies every active predicate of options
Satisfies(t, options) ==
    /\ options.timePeriod # Undefined
       => ChangeOver(t, options.timePeriod[1]) # Undefined
    /\ options.minVolume # Undefined => t.volume_sol >= options.minVolume[1]
    /\ options.minLiquidity # Undefined
       => t.liquidity_sol >= options.minLiquidity[1]
    /\ options.protocol # Undefined
       => includes(toLowerCase(t.protocol), toLowerCase(options.protocol[1]))

\* C22: filterTokens returns, in input order, exactly the records that
\* satisfy every active predicate: the change over the period is present
\* (a change of 0 is), volume and liquidity reach the bounds, the protocol
\* contains the text whatever the case.
C22_FilterKeepsSatisfying ==
    view.fn = "filterTokens"
    => view.tokens = SelectSeq(records, LAMBDA t : Satisfies(t, view.options))

\* the position of a record in the input
PositionOf(t) == CHOOSE k \in DOMAIN records : records[k] = t

\* the value a record is sorted by; for "price_change" it is the value
\* the comparator computes, which C24 is about
SortKey(field, t) ==
    CASE field = "volume" -> t.volume_sol
      [] field = "market_cap" -> t.market_cap_sol
      [] field = "liquidity" -> t.liquidity_sol
      [] field = "transaction_count" -> t.transaction_count
      [] OTHER -> priceChangeValue(t)

\* C23: sortTokens returns a permutation of its input; with a field it
\* knows, the values of that field never decrease ("asc") or never increase
\* ("desc") along the result and records of equal value keep their input
\* order; with any other field the result is the input.
C23_StableSortOrNoOp ==
    view.fn = "sortTokens"
    => LET out == view.tokens
           field == view.options.field
       IN  /\ Len(out) = Len(records)
           /\ \A k \in DOMAIN records : \E i \in DOMAIN out : out[i] = records[k]
           /\ IF sortFieldKnown(field)
              THEN \A i, j \in DOMAIN out :
                      i < j
                      => /\ view.options.order = "asc"
                            => SortKey(field, out[i]) <= SortKey(field, out[j])
                         /\ view.options.order = "desc"
                            => SortKey(field, out[i]) >= SortKey(field, out[j])
                         /\ SortKey(field, out[i]) = SortKey(field, out[j])
                            => PositionOf(out[i]) < PositionOf(out[j])
              ELSE out = records

\* a sort that moved records and left two of equal volume in input order
C23_Witness ==
    /\ view.fn = "sortTokens"
    /\ view.options.field = "volume"
    /\ view.tokens # records
    /\ \E i, j \in DOMAIN view.tokens :
          /\ i < j
          /\ view.tokens[i].volume_sol = view.tokens[j].volume_sol

\* the 24h change if present, else the 1h change if present, else 0
BestAvailableChange(t) ==
    IF t.price_24hr_change # Undefined THEN t.price_24hr_change[1]
    ELSE IF t.price_1hr_change # Undefined THEN t.price_1hr_change[1]
    ELSE 0

\* C24: sorted by price change, the records are in the order of their 24h
\* change when they have one (be it 0), else of their 1h change, else of 0.
C24_SortedByBestAvailableChange ==
    (view.fn = "sortTokens" /\ view.options.field = "price_change")
    => \A i, j \in DOMAIN view.tokens :
          i < j
          => IF view.options.order = "asc"
             THEN BestAvailableChange(view.tokens[i])
                    <= BestAvailableChange(view.tokens[j])
             ELSE BestAvailableChange(view.tokens[i])
                    >= BestAvailableChange(view.tokens[j])

NotANumber == <<"n", "o", "t", "-", "a", "-", "n", "u", "m", "b", "e", "r">>

\* the cursors that are absent, empty, not a number or negative
BadCursors ==
    {Undefined, Some(<<>>), Some(NotANumber), Some(<<"x">>), Some(<<"-", "1">>)}

\* C25: with a cursor that is absent, not a number or negative,
\* paginateTokens returns the page and the next_cursor it returns with
\* cursor "0" for the same records and limit.
C25_BadCursorIsZero ==
    (view.fn = "paginateTokens" /\ view.options.cursor \in BadCursors)
    => LET zero == paginateTokens(records,
                       [view.options EXCEPT !.cursor = Some(<<"0">>)])
       IN  /\ view.tokens = zero.tokens
           /\ view.next_cursor = zero.next_cursor

\* three records, limit 2, cursor "not-a-number": the first two, and "2"
C25_Witness ==
    /\ view.fn = "paginateTokens"
    /\ view.options.cursor = Some(NotANumber)
    /\ view.options.limit = Some(2)
    /\ Len(records) = 3
    /\ view.tokens = SubSeq(records, 1, 2)
    /\ view.next_cursor = Some(<<"2">>)

\* the offset a cursor stands for
OffsetOf(cursor) == IF cursor \in BadCursors THEN 0 ELSE parseInt(cursor[1])[1]

\* the limit of the options, 20 when none is given
LimitOf(options) == IF options.limit = Undefined THEN 20 ELSE options.limit[1]

\* the records at positions [from, to) of the input, counted from 0
RecordsBetween(from, to) ==
    IF to <= from \/ from >= Len(records) THEN <<>>
    ELSE SubSeq(records, from + 1, Min(to, Len(records)))

\* C26: paginateTokens returns the records at positions
\* [offset, offset + limit), the limit being 20 when none is given, and a
\* next_cursor of offset + limit exactly when offset + limit is less than
\* the number of records.
C26_PageIsSlice ==
    view.fn = "paginateTokens"
    => LET offset == OffsetOf(view.options.cursor)
           limit == LimitOf(view.options)
       IN  /\ view.tokens = RecordsBetween(offset, offset + limit)
           /\ view.next_cursor =
                 IF offset + limit < Len(records)
                 THEN Some(toString(offset + limit)) ELSE Undefined

\* the limit the client supplied with the call, if it is a natural number
SuppliedLimit ==
    CASE view.fn = "getTokens" ->
           IF SeqTruthy(view.options.limit)
           THEN parseInt(view.options.limit[1]) ELSE Undefined
      [] view.fn = "sendFilteredData" ->
           IF view.options.pagination # Undefined
           THEN view.options.pagination[1].limit ELSE Undefined
      [] OTHER -> Undefined

\* C27: the page that GET /api/tokens?limit=L returns, and the page pushed
\* to a subscriber whose preferences have pagination.limit = L, hold at most
\* L records.
C27_PageAtMostLimit ==
    (SuppliedLimit # Undefined /\ SuppliedLimit[1] >= 0)
    => Len(view.tokens) <= SuppliedLimit[1]

(***************************************************************************)
(* Claims about the subscribers and the timers, checked under Spec.        *)
(***************************************************************************)
\* the projections for socket s that a step started outside the tick and
\* left pending, and those it emitted
PendingFor(cs, s) ==
    Cardinality({ c \in DOMAIN cs : cs[c].client = s /\ cs[c].tick = Undefined })

EmittedTo(es, s) == Cardinality({ i \in DOMAIN es : es[i].client = s })

\* C28: the step that connects a subscriber creates its registry entry with
\* the default view and starts one projection for it, emitted in that step or
\* pending on the aggregator, with no subscribe message and no tick.
C28_PushOnConnect ==
    [][ \A s \in Clients :
          (~MapHas(connectedClients, s) /\ MapHas(connectedClients', s))
          => /\ MapGet(connectedClients', s) = EmptyPreferences
             /\ PendingFor(calls', s) + EmittedTo(emitted', s) = 1 ]_vars

\* the projection a step started outside the tick: the call it left pending,
\* or the event it emitted
StartedBy(before, after, es) ==
    IF Len(after) > Len(before) THEN after[Len(after)] ELSE es[1]

\* C29: the step in which a message replaces the preferences of a connected
\* subscriber leaves the registry entry equal to the new preferences and
\* starts exactly one projection for that subscriber, computed with them,
\* emitted in that step or pending on the aggregator and emitted when the
\* aggregator returns; and a tick projects for every subscriber with the
\* preferences its registry entry holds at the tick.
C29_UpdatePushesOnce ==
    [][ \A s \in Clients :
          /\ ( /\ MapHas(connectedClients, s)
               /\ MapHas(connectedClients', s)
               /\ MapGet(connectedClients', s) # MapGet(connectedClients, s) )
             => /\ PendingFor(calls', s) + EmittedTo(emitted', s)
                     = PendingFor(calls, s) + 1
                /\ StartedBy(calls, calls', emitted').client = s
                /\ StartedBy(calls, calls', emitted').preferences
                     = Some(MapGet(connectedClients', s))
                /\ lastTick' = lastTick
          /\ PendingFor(calls', s) + EmittedTo(emitted', s) >= PendingFor(calls, s)
          /\ lastTick' # lastTick
             => /\ \A c \in (Len(calls) + 1)..Len(calls') :
                      calls'[c].client = s
                      => /\ calls'[c].tick = Some(lastTick')
                         /\ calls'[c].preferences
                              = Some(MapGet(connectedClients, s))
                /\ lastPush'[s].sent
                   => lastPush'[s].preferences = Some(MapGet(connectedClients, s))
      ]_vars

\* a subscriber that the tick served with one page size has changed it, and
\* the projection with the new page size was emitted
C29_Witness ==
    \E s \in Clients :
        /\ MapHas(connectedClients, s)
        /\ lastPush[s].sent
        /\ lastPush[s].preferences = Some(PreferencesOf(1))
        /\ MapGet(connectedClients, s) = PreferencesOf(2)
        /\ EmittedTo(emitted, s) = 1
        /\ emitted[1].preferences = Some(PreferencesOf(2))

\* C30: while the registry is empty, a run of a periodic timer (the
\* setInterval callback or the cron job) reads and writes no cache entry,
\* starts no call of the aggregator, hence no provider call, and emits
\* nothing.
C30_NoWorkWhenNobodyListens ==
    [][ ( /\ connectedClients = <<>>
          /\ (lastTick' # lastTick \/ lastJob' # lastJob) )
        => /\ UNCHANGED <<cacheVars, calls, fetchStarts>>
           /\ lastPush' = [s \in Clients |-> NoPush]
           /\ emitted' = <<>> ]_vars

(***************************************************************************)
(* SpecWs: the WebSocketService (services/websocket.ts) with the socket    *)
(* table of its socket.io server and its setInterval timer.  The table     *)
(* io.sockets.sockets and socket.connected are socket.io's: a socket that  *)
(* closed leaves the table, and the service's 'disconnect' listener runs   *)
(* as a step of its own.  The clock stands still: lastTick counts the runs *)
(* of the setInterval callback.                                            *)
(***************************************************************************)
\* how many timers the runtime can hold at a time
MaxTimers == 2

Timers == 1 .. MaxTimers

\* how many times the setInterval callback runs
MaxRuns == 2

\* what the fetch function resolves with in this specification: the merge of
\* a cycle in which every source answered
WsSnapshots ==
    { fetchAndMerge(r).value :
        r \in { x \in SnapshotInputs :
                  \A i \in DOMAIN x : x[i].status = "fulfilled" } }

\* steps that emit nothing and start nothing
Quiet ==
    /\ emitted' = <<>>
    /\ UNCHANGED <<now, cacheVars, calls, connectedClients, lastPush,
                   fetchStarts, lastTick, lastJob>>

\* mutant: the callback does not look at the socket
socketLive_Any(s) == TRUE

\* const socket = this.io.sockets.sockets.get(clientId);
\* socket && socket.connected
socketLive(s) == io.sockets[s] = "connected"

\* the forEach of the setInterval callback: sendFilteredData for every entry
\* of the registry whose socket is live, in the Map's order
RECURSIVE periodicRequests(_, _)
periodicRequests(entries, run) ==
    IF entries = <<>> THEN <<>>
    ELSE (IF socketLive(entries[1].key)
          THEN <<Request(entries[1].key, Some(run), Some(entries[1].value))>>
          ELSE <<>>) \o periodicRequests(Tail(entries), run)

\* mutant: the previous timer is left running
cleared_None(timers, handle) == timers

\* if (this.updateInterval) clearInterval(this.updateInterval)
cleared(timers, handle) ==
    IF handle.isNull THEN timers ELSE timers \ {handle.value}

\* io.on('connection'): socket.io adds the socket to its table and runs the
\* listener
SocketConnect(s) ==
    /\ io.open
    /\ io.sockets[s] = "none"
    /\ io' = [io EXCEPT !.sockets[s] = "connected"]
    /\ Connect(s)
    /\ UNCHANGED <<activeTimers, updateTimer>>

\* the connection of a socket closes: socket.io drops it from its table
SocketClose(s) ==
    /\ io.sockets[s] = "connected"
    /\ io' = [io EXCEPT !.sockets[s] = "closed"]
    /\ Quiet
    /\ UNCHANGED <<activeTimers, updateTimer>>

\* socket.on('disconnect')
SocketDisconnect(s) ==
    /\ io.sockets[s] = "closed"
    /\ io' = [io EXCEPT !.sockets[s] = "none"]
    /\ Disconnect(s)
    /\ UNCHANGED <<activeTimers, updateTimer>>

\* socket.on('subscribe'): socket.io delivers events of connected sockets only
SocketSubscribe(s, preferences) ==
    /\ io.sockets[s] = "connected"
    /\ Subscribe(s, preferences)
    /\ UNCHANGED wsVars

\* socket.on('updatePreferences')
SocketUpdatePreferences(s, preferences) ==
    /\ io.sockets[s] = "connected"
    /\ UpdatePreferences(s, preferences)
    /\ UNCHANGED wsVars

\* the timers setInterval can return: those that are neither running nor
\* held by the service
freeTimers ==
    { t \in Timers :
        /\ t \notin activeTimers
        /\ updateTimer.isNull \/ updateTimer.value # t }

\* startPeriodicUpdates: the previous timer is cleared and setInterval
\* returns a new one, the first that is free
StartPeriodicUpdates ==
    /\ freeTimers # {}
    /\ LET t == CHOOSE u \in freeTimers : \A v \in freeTimers : u <= v
       IN  /\ activeTimers' = cleared(activeTimers, updateTimer) \cup {t}
           /\ updateTimer' = Val(t)
    /\ Quiet
    /\ UNCHANGED io

\* stop: the timer is cleared and io.close() closes every socket
Stop ==
    /\ activeTimers' = cleared(activeTimers, updateTimer)
    /\ updateTimer' = Null
    /\ io' = [open |-> FALSE,
              sockets |-> [s \in Clients |->
                             IF io.sockets[s] = "connected" THEN "closed"
                             ELSE io.sockets[s]]]
    /\ Quiet

\* the setInterval callback of a timer that is running
PeriodicUpdate(t) ==
    /\ t \in activeTimers
    /\ lastTick < MaxRuns
    /\ lastTick' = lastTick + 1
    /\ IssueAll("ws", periodicRequests(connectedClients, lastTick + 1),
                [s \in Clients |-> NoPush], lastTick + 1)
    /\ UNCHANGED <<now, connectedClients, lastJob, wsVars>>

\* the fetch function of an aggregateTokens call resolves
AggregateReturn(c, data) ==
    /\ FetchReturn(c, data)
    /\ UNCHANGED wsVars

WsNext ==
    \/ \E s \in Clients : SocketConnect(s) /\ UNCHANGED <<mergeVars, aggVars, retryVars, storeVars, viewVars>>
    \/ \E s \in Clients : SocketClose(s) /\ UNCHANGED <<mergeVars, aggVars, retryVars, storeVars, viewVars>>
    \/ \E s \in Clients : SocketDisconnect(s) /\ UNCHANGED <<mergeVars, aggVars, retryVars, storeVars, viewVars>>
    \/ \E s \in Clients : \E p \in {Undefined} \cup { Some(q) : q \in Preferences } :
          SocketSubscribe(s, p) /\ UNCHANGED <<mergeVars, aggVars, retryVars, storeVars, viewVars>>
    \/ \E s \in Clients : \E p \in Preferences :
          SocketUpdatePreferences(s, p) /\ UNCHANGED <<mergeVars, aggVars, retryVars, storeVars, viewVars>>
    \/ StartPeriodicUpdates /\ UNCHANGED <<mergeVars, aggVars, retryVars, storeVars, viewVars>>
    \/ Stop /\ UNCHANGED <<mergeVars, aggVars, retryVars, storeVars, viewVars>>
    \/ \E t \in Timers : PeriodicUpdate(t) /\ UNCHANGED <<mergeVars, aggVars, retryVars, storeVars, viewVars>>
    \/ \E c \in DOMAIN calls : \E data \in WsSnapshots :
          AggregateReturn(c, data) /\ UNCHANGED <<mergeVars, aggVars, retryVars, storeVars, viewVars>>

SpecWs == Init /\ [][WsNext]_vars

(***************************************************************************)
(* Claims about the registry, the sockets and the timer, under SpecWs.     *)
(***************************************************************************)
\* the run of the callback numbered run started a projection for socket s in
\* this step: its aggregateTokens call is in flight, or its push was sent
StartedFor(s, run) ==
    \/ \E c \in DOMAIN calls' : calls'[c].client = s /\ calls'[c].tick = Some(run)
    \/ lastPush'[s].sent /\ lastPush'[s].tick = Some(run)

\* the same, seen in the state the run left behind
ServedBy(s, run) ==
    \/ \E c \in DOMAIN calls : calls[c].client = s /\ calls[c].tick = Some(run)
    \/ lastPush[s].sent /\ lastPush[s].tick = Some(run)

\* C31: a run of the periodic callback starts a projection for exactly the
\* entries of the registry whose socket is in the server's table and
\* connected; for an entry whose socket is gone it starts no aggregateTokens
\* call and sends nothing, and the entries after it are still served.
C31_StaleEntriesSkipped ==
    [][lastTick' # lastTick =>
         \A i \in DOMAIN connectedClients :
            LET s == connectedClients[i].key
            IN  (io.sockets[s] = "connected") <=> StartedFor(s, lastTick')]_vars

\* a run has served a live socket and skipped an entry whose socket had
\* closed: the skipped entry precedes the served one in the registry, so it
\* was there when the callback ran
C31_Witness ==
    /\ lastTick > 0
    /\ \E i, j \in DOMAIN connectedClients :
          /\ i < j
          /\ io.sockets[connectedClients[i].key] = "closed"
          /\ ~ServedBy(connectedClients[i].key, lastTick)
          /\ io.sockets[connectedClients[j].key] = "connected"
          /\ ServedBy(connectedClients[j].key, lastTick)

(***************************************************************************)
(* Claims about the tiers of CacheService over time, under SpecStore.      *)
(***************************************************************************)
\* the positions at which an operation awaits a Redis command
RedisPositions == {"redisGet", "redisSetex", "redisDel"}

\* this step sends a command to Redis
CommandSent ==
    /\ op' # Idle
    /\ op'.pc \in RedisPositions
    /\ op = Idle \/ op.pc \notin RedisPositions

\* this step is the catch block of an awaited Redis command
CommandFailed ==
    /\ op # Idle
    /\ op.pc \in RedisPositions
    /\ IF op' = Idle THEN lastDone'.redisError ELSE op'.redisError

\* this step is a listener of the Redis client: the service's operation and
\* both tiers stay as they are
ClientEvent ==
    /\ redisEnabled
    /\ UNCHANGED <<op, lastDone, lastWrite, inMemoryCache, redisStore, now>>

\* C32: redisAvailable falls only in the catch block of a Redis command or in
\* a listener of the client ('error', 'close'), and rises only in a listener
\* of the client ('connect', 'ready'); get, set and del send a command to
\* Redis only when Redis is enabled and the flag is up.
C32_AvailabilityFlag ==
    [][/\ (redisAvailable /\ ~redisAvailable') => (CommandFailed \/ ClientEvent)
       /\ (~redisAvailable /\ redisAvailable') => ClientEvent
       /\ CommandSent => (redisEnabled /\ redisAvailable)
       /\ redisEnabled' = redisEnabled]_vars

\* a set completed without a Redis error and without writing to Redis, the
\* flag being down: it did not send SETEX
C32_Witness ==
    /\ redisEnabled
    /\ ~redisAvailable
    /\ lastDone.kind = "set"
    /\ ~lastDone.redisError
    /\ lastWrite.kind = "set"
    /\ redisStore = NoEntry
    /\ inMemoryCache.present

\* the last get was answered by the in-memory map: Redis is disabled, or its
\* GET failed and get fell back
AnsweredByMemory ==
    /\ lastDone.kind = "get"
    /\ ~redisEnabled \/ lastDone.redisError

\* C33: the in-memory entry written by the last set, at instant t with a
\* time to live of ttl, is what a get answered by the in-memory map returns
\* at every instant up to t + ttl included, and after that instant such a get
\* returns null and leaves the map without the entry; the passing of time
\* alone removes nothing.
C33_MemoryEntryUntilExpiry ==
    /\ [](( /\ AnsweredByMemory
            /\ lastWrite.kind = "set" )
          => IF lastDone.doneAt <= lastWrite.expiresAt
             THEN lastDone.result = Val(lastWrite.value)
             ELSE /\ lastDone.result = Null
                  /\ op = Idle => ~inMemoryCache.present)
    /\ [][now' # now => inMemoryCache' = inMemoryCache]_vars

\* a get found the entry of the last set expired and removed it
C33_Witness ==
    /\ AnsweredByMemory
    /\ lastWrite.kind = "set"
    /\ lastDone.doneAt > lastWrite.expiresAt
    /\ lastDone.memoryBefore.present
    /\ lastDone.result = Null
    /\ ~inMemoryCache.present

\* the sockets whose 'connection' listener ran and whose 'disconnect'
\* listener did not
Connected == { s \in Clients : io.sockets[s] # "none" }

\* C34: the registry holds one entry for every socket whose connection the
\* service was told of and whose disconnection it was not, and no other
\* entry; a run of the periodic callback leaves the registry as it is.
C34_RegistryFollowsConnections ==
    /\ []( /\ \A s \in Connected :
                Cardinality({ i \in DOMAIN connectedClients :
                                connectedClients[i].key = s }) = 1
           /\ \A i \in DOMAIN connectedClients :
                connectedClients[i].key \in Connected )
    /\ [][lastTick' # lastTick => connectedClients' = connectedClients]_vars

\* after connections, a subscription with preferences, a run of the callback
\* and the disconnection of a socket whose projection is still in flight
C34_Witness ==
    /\ lastTick > 0
    /\ \E s \in Clients :
          /\ s \notin Connected
          /\ \E c \in DOMAIN calls : calls[c].client = s
          /\ ~MapHas(connectedClients, s)
    /\ \E s \in Connected :
          /\ MapHas(connectedClients, s)
          /\ MapGet(connectedClients, s) # EmptyPreferences

\* C35: at most one timer runs, and it is the one the service holds: a
\* startPeriodicUpdates that finds a timer clears it before it installs the
\* next, after stop no timer runs, and the periodic callback runs only
\* while the service holds a timer.
C35_OneTimer ==
    /\ [](activeTimers = IF updateTimer.isNull THEN {} ELSE {updateTimer.value})
    /\ [][/\ (~updateTimer.isNull /\ updateTimer' # updateTimer)
               => updateTimer.value \notin activeTimers'
          /\ lastTick' # lastTick => ~updateTimer.isNull]_vars

\* startPeriodicUpdates was called while a timer was running, and the
\* callback has run
C35_Witness ==
    /\ updateTimer = Val(2)
    /\ activeTimers = {2}
    /\ lastTick > 0

\* the preferences of the 'tokens:update' events this step emitted to socket
\* s: those of sendInitialData / sendFilteredData called by a listener, and
\* that of the periodic callback
DeliveredTo(s) ==
    { emitted'[i].preferences :
        i \in { j \in DOMAIN emitted' : emitted'[j].client = s } }
    \cup (IF lastPush'[s] # lastPush[s] /\ lastPush'[s].sent
          THEN {lastPush'[s].preferences} ELSE {})

\* C37: once the projection for a socket's current preferences has been
\* delivered, no 'tokens:update' computed with other preferences, started
\* before the updatePreferences that set them, is delivered to that socket:
\* a step that delivers one finds the projection for the current
\* preferences still in flight.
C37_NoStaleProjection ==
    [][\A s \in Clients :
          ( /\ MapHas(connectedClients, s)
            /\ connectedClients' = connectedClients
            /\ \E p \in DeliveredTo(s) :
                  /\ p # Undefined
                  /\ p # Some(MapGet(connectedClients, s)) )
          => \E c \in DOMAIN calls :
                /\ calls[c].client = s
                /\ calls[c].preferences = Some(MapGet(connectedClients, s))]_vars

\* C38: a step emits 'tokens:update' only to sockets whose 'disconnect'
\* listener has not run.
C38_NoEmitAfterDisconnect ==
    [][\A s \in Clients : DeliveredTo(s) # {} => io.sockets'[s] # "none"]_vars

(***************************************************************************)
(* Claims about the snapshot and its pages, under SpecView.                *)
(***************************************************************************)
\* C36: filterTokens, sortTokens, paginateTokens, the three HTTP handlers
\* and the subscriber's projection leave the array they were given as it
\* was: the same records with the same field values in the same order.
C36_SnapshotUnchanged ==
    [][view' # view => records' = records]_vars

\* sortTokens returned the records in another order than the array it was
\* given, which still holds them in the order of the snapshot
C36_Witness ==
    /\ view.fn = "sortTokens"
    /\ Len(records) > 1
    /\ view.tokens # records
    /\ view.tokens = sortTokens(records, view.options)

\* the pages of a sequence of pages, one after the other
RECURSIVE Concatenated(_)
Concatenated(pages) ==
    IF pages = <<>> THEN <<>> ELSE Head(pages) \o Concatenated(Tail(pages))

\* C39: for a limit of 1 or more, calling paginateTokens with no cursor and
\* then with each next_cursor it returned ends with a page that has no
\* next_cursor, and the pages put one after the other are the list that was
\* paged: every record once, in the order of the list.
C39_PagingCoversTheList ==
    view.fn = "pageThrough"
    => /\ view.finished
       /\ Concatenated(view.pages) = records

\* a list paged in three calls or more, the last page not full
C39_Witness ==
    /\ view.fn = "pageThrough"
    /\ view.finished
    /\ Len(view.pages) >= 3
    /\ Len(view.pages[Len(view.pages)]) < view.options
    /\ Len(view.pages[1]) = view.options

(***************************************************************************)
(* SpecCycle: the cycles of aggregateTokens over a CacheService with       *)
(* ENABLE_REDIS unset, when a cycle can come back empty.  The callers are  *)
(* the scheduled job and the periodic push to one subscriber, whose        *)
(* 'tokens:update' shows what its aggregateTokens call returned.           *)
(***************************************************************************)
\* a cycle in which every provider fails, or the only one that answers
\* returns nothing
EmptyCycles ==
    { << [status |-> "rejected"], [status |-> "rejected"] >>,
      << [status |-> "fulfilled", value |-> <<>>], [status |-> "rejected"] >> }

\* what the fetch function resolves with in this specification
CycleSnapshots == WsSnapshots \cup { fetchAndMerge(r).value : r \in EmptyCycles }

CycleNext ==
    \/ ScheduledJob /\ UNCHANGED <<mergeVars, aggVars, retryVars, storeVars, viewVars, wsVars>>
    \/ Connect("s1") /\ UNCHANGED <<mergeVars, aggVars, retryVars, storeVars, viewVars, wsVars>>
    \/ Tick /\ UNCHANGED <<mergeVars, aggVars, retryVars, storeVars, viewVars, wsVars>>
    \/ \E c \in DOMAIN calls : \E ok \in BOOLEAN :
          RedisGetReply(c, ok) /\ UNCHANGED <<mergeVars, aggVars, retryVars, storeVars, viewVars, wsVars>>
    \/ \E c \in DOMAIN calls : \E data \in CycleSnapshots :
          FetchReturn(c, data) /\ UNCHANGED <<mergeVars, aggVars, retryVars, storeVars, viewVars, wsVars>>
    \/ \E c \in DOMAIN calls : \E ok \in BOOLEAN :
          RedisSetReply(c, ok) /\ UNCHANGED <<mergeVars, aggVars, retryVars, storeVars, viewVars, wsVars>>
    \/ RedisUp /\ UNCHANGED <<mergeVars, aggVars, retryVars, storeVars, viewVars, wsVars>>
    \/ RedisDown /\ UNCHANGED <<mergeVars, aggVars, retryVars, storeVars, viewVars, wsVars>>
    \/ AdvanceClock /\ UNCHANGED <<mergeVars, aggVars, retryVars, storeVars, viewVars, wsVars>>

SpecCycle == CacheInit /\ [][CycleNext]_vars

\* the in-memory map holds an empty aggregate
EmptyStored == inMemoryCache.present /\ inMemoryCache.value = <<>>

\* instant k lies in the time to live of the entry of the in-memory map,
\* after the instant it was stored and before the instant it expires
InWindow(k) ==
    /\ inMemoryCache.expiresAt - AGG_TTL < k
    /\ k < inMemoryCache.expiresAt

\* C40: while an empty aggregate is stored, no fetch function was started
\* inside its time to live, and the aggregateTokens call of a periodic push
\* issued inside it returned the empty list.
C40_EmptyAggregateCached ==
    EmptyStored
    => /\ \A i \in DOMAIN fetchStarts : ~InWindow(fetchStarts[i])
       /\ ( /\ lastPush["s1"].sent
            /\ InWindow(lastPush["s1"].tick[1]) )
          => lastPush["s1"].tokens = <<>>

====
